---- MODULE Spec2Model ----
(***************************************************************************)
(* A model of the health Monitor of xmidt-org/haelu: construction from     *)
(* options, the Start/Shutdown lifecycle, the Updater path, the per-       *)
(* subsystem probe goroutines, and event dispatch to listeners.            *)
(*                                                                         *)
(* The listener revision of the Monitor (monitor.go, with the event and    *)
(* subsystem types that go with it) is the one modelled.  Time is counted  *)
(* in whole units of one minute.                                           *)
(***************************************************************************)
EXTENDS Integers, Sequences, FiniteSets, TLC

VARIABLES
    opts,       \* the options NewMonitor was (or is about to be) called with
    ret,        \* what NewMonitor returned: [done, m (nil is << >>), err]
    m,          \* the Monitor struct
    now,        \* the clock read by time.Now()
    canceled,   \* the lifetime contexts whose cancel function has been called
    nctx,       \* how many lifetime contexts context.WithCancel has created
    procs,      \* callers and probe goroutines: where each one stands
    received,   \* per listener: the events its OnMonitorEvent was handed
    hist        \* history: counts of operations, the last lifecycle success

vars == <<opts, ret, m, now, canceled, nctx, procs, received, hist>>

----------------------------------------------------------------------------
(* Bounds of the model *)

\* The clock runs from 1 to MaxTime.
MaxTime == 2

\* At most MaxOps operations that recompute (Update calls, Start calls and
\* probe invocations) are begun in one behaviour.
MaxOps == 3

\* NewMonitor is tried on option lists of at most MaxOpts options.
MaxOpts == 3
MaxChain == 3
MaxCalls == 2
MaxRunTime == 3

----------------------------------------------------------------------------
(* Status, errors, time *)

StatusGood == 0
StatusWarn == 1
StatusBad == 2

Statuses == {StatusGood, StatusWarn, StatusBad}

\* error values: nil, the two lifecycle errors, the errors of the options,
\* and an error an updater or a probe may report
NoError == "nil"
ErrMonitorStarted == "the monitor has been started"
ErrMonitorShutdown == "the monitor has been shutdown"
ErrSubsystemExists == "A subsystem with the name already exists"
ErrProbe == "probe failed"

\* the zero value of time.Time
ZeroTime == 0

\* the unit of time is a minute: DefaultProbeInterval = 2 * time.Minute
DefaultProbeInterval == 2

\* a nil context.CancelFunc
NoCancel == 0

----------------------------------------------------------------------------
(* Definitions, subsystems, options *)

\* the names, listeners and attributes the model draws its inputs from
Names == {"A", "B"}
ListenerIds == {"L1", "L2"}
NoAttributes == {}
SomeAttributes == {<<"zone", "east">>}

\* Attributes.Clone: a shallow copy, nil for an empty map (nil and the empty
\* map hold the same pairs: none)
Clone(a) ==
    IF Cardinality(a) = 0 THEN NoAttributes ELSE {kv \in a : TRUE}

\* a Definition; Probe says whether the Probe closure is non-nil
Definition(name, status, nonCritical, probe, interval, attrs) ==
    [Name |-> name, Status |-> status, NonCritical |-> nonCritical,
     Probe |-> probe, ProbeInterval |-> interval, Attributes |-> attrs]

\* the zero value of a Subsystem, as make([]Subsystem, n) leaves each element
ZeroSubsystem ==
    [Name |-> "", Status |-> StatusGood, LastUpdate |-> ZeroTime,
     LastError |-> NoError, NonCritical |-> FALSE, Attributes |-> NoAttributes]

\* the sync.RWMutex: the process holding the write lock, the readers
NoProc == <<0, 0>>
Unlocked == [w |-> NoProc, r |-> {}]

\* the Monitor NewMonitor starts from
EmptyMonitor ==
    [defaultProbeInterval |-> DefaultProbeInterval,
     byName |-> [n \in {} |-> 0],
     trackers |-> << >>,
     subsystems |-> << >>,
     listeners |-> << >>,
     lock |-> Unlocked,
     status |-> StatusGood,
     lastUpdate |-> ZeroTime,
     cancel |-> NoCancel]

\* the options, all of one shape: kind, and the argument the kind reads
Option(kind, defs, ls, i) == [kind |-> kind, defs |-> defs, ls |-> ls, i |-> i]
OptSubsystem(d) == Option("WithSubsystem", <<d>>, << >>, 0)
OptSubsystems(defs) == Option("WithSubsystems", defs, << >>, 0)
OptListeners(ls) == Option("WithListeners", << >>, ls, 0)
OptDefaultProbeInterval(i) == Option("WithDefaultProbeInterval", << >>, << >>, i)

\* what an option's apply returns: the Monitor as it left it, and the error
Applied(mon, err) == [m |-> mon, err |-> err]

\* WithDefaultProbeInterval(i).apply(mon)
WithDefaultProbeInterval(mon, i) ==
    Applied([mon EXCEPT !.defaultProbeInterval =
                 IF i <= 0 THEN DefaultProbeInterval ELSE i], NoError)

\* WithSubsystem without the check of the name: the later definition wins
WithSubsystemUnchecked(mon, d) ==
    LET ssm == [definition |-> [d EXCEPT !.Attributes = Clone(d.Attributes)],
                current |-> 0]
        at == Len(mon.trackers) + 1
    IN Applied([mon EXCEPT
                   !.byName = [n \in DOMAIN mon.byName \cup {d.Name} |->
                                  IF n = d.Name THEN at ELSE mon.byName[n]],
                   !.trackers = Append(mon.trackers, ssm)],
               NoError)

\* WithSubsystem(d).apply(mon)
WithSubsystem(mon, d) ==
    IF d.Name \in DOMAIN mon.byName
    THEN Applied(mon, ErrSubsystemExists)
    ELSE LET ssm == [definition |-> [d EXCEPT !.Attributes = Clone(d.Attributes)],
                     current |-> 0]
             at == Len(mon.trackers) + 1
         IN Applied([mon EXCEPT
                        !.byName = [n \in DOMAIN mon.byName \cup {d.Name} |->
                                       IF n = d.Name THEN at ELSE mon.byName[n]],
                        !.trackers = Append(mon.trackers, ssm)],
                    NoError)

\* WithSubsystems(defs...).apply(mon): the definitions in order, stopping at
\* the first name that is already there
RECURSIVE WithSubsystems(_, _)
WithSubsystems(mon, defs) ==
    IF defs = << >> THEN Applied(mon, NoError)
    ELSE LET one == WithSubsystem(mon, Head(defs))
         IN IF one.err # NoError THEN one
            ELSE WithSubsystems(one.m, Tail(defs))

\* WithListeners(ls...).apply(mon)
WithListeners(mon, ls) ==
    Applied([mon EXCEPT !.listeners = mon.listeners \o ls], NoError)

\* o.apply(mon)
apply(o, mon) ==
    CASE o.kind = "WithDefaultProbeInterval" -> WithDefaultProbeInterval(mon, o.i)
      [] o.kind = "WithSubsystem" -> WithSubsystem(mon, o.defs[1])
      [] o.kind = "WithSubsystems" -> WithSubsystems(mon, o.defs)
      [] o.kind = "WithListeners" -> WithListeners(mon, o.ls)

\* the loop of NewMonitor over its options
RECURSIVE applyOptions(_, _)
applyOptions(mon, os) ==
    IF os = << >> THEN Applied(mon, NoError)
    ELSE LET one == apply(Head(os), mon)
         IN IF one.err # NoError THEN one
            ELSE applyOptions(one.m, Tail(os))

\* the normalization without the case of a definition that has no Probe
normalizeIntervalWithoutProbe(d, defaultInterval) ==
    IF d.ProbeInterval <= 0 THEN defaultInterval
    ELSE d.ProbeInterval

\* the probe interval of a definition as NewMonitor normalizes it
normalizeInterval(d, defaultInterval) ==
    IF ~d.Probe THEN 0
    ELSE IF d.ProbeInterval <= 0 THEN defaultInterval
    ELSE d.ProbeInterval

\* the pass of NewMonitor over the trackers: each tracker points at its
\* Subsystem, which takes Status, Attributes and LastUpdate; the interval of
\* the definition is normalized
initializeTrackers(mon, initialLastUpdate) ==
    [mon EXCEPT
        !.subsystems = [k \in 1..Len(mon.trackers) |->
            [ZeroSubsystem EXCEPT
                !.Status = mon.trackers[k].definition.Status,
                !.Attributes = mon.trackers[k].definition.Attributes,
                !.LastUpdate = initialLastUpdate]],
        !.trackers = [k \in 1..Len(mon.trackers) |->
            [definition |-> [mon.trackers[k].definition EXCEPT
                                !.ProbeInterval = normalizeInterval(
                                    mon.trackers[k].definition,
                                    mon.defaultProbeInterval)],
             current |-> k]]]

\* NewMonitor(os...) at time t: (nil, err) or (m, nil); nil is << >>
NewMonitor(os, t) ==
    LET applied == applyOptions(EmptyMonitor, os)
    IN IF applied.err # NoError
       THEN [done |-> TRUE, m |-> << >>, err |-> applied.err]
       ELSE [done |-> TRUE, m |-> <<initializeTrackers(applied.m, t)>>,
             err |-> NoError]

\* NewMonitor has not been called yet
NotConstructed == [done |-> FALSE, m |-> << >>, err |-> NoError]

----------------------------------------------------------------------------
(* The overall status and the dispatch of events *)

\* scanTrackers with the loop ending one tracker early
RECURSIVE scanTrackersSkipsLast(_, _, _, _)
scanTrackersSkipsLast(mon, k, criticalStatus, nonCriticalStatus) ==
    IF k >= Len(mon.trackers)
    THEN [criticalStatus |-> criticalStatus, nonCriticalStatus |-> nonCriticalStatus]
    ELSE LET ssm == mon.trackers[k]
             cur == mon.subsystems[ssm.current].Status
         IN IF ssm.definition.NonCritical /\ cur > nonCriticalStatus
            THEN scanTrackersSkipsLast(mon, k + 1, criticalStatus, cur)
            ELSE IF ~ssm.definition.NonCritical /\ cur > criticalStatus
            THEN scanTrackersSkipsLast(mon, k + 1, cur, nonCriticalStatus)
            ELSE scanTrackersSkipsLast(mon, k + 1, criticalStatus, nonCriticalStatus)

\* the loop of unsafeUpdateStatus over the trackers, from tracker k on
RECURSIVE scanTrackers(_, _, _, _)
scanTrackers(mon, k, criticalStatus, nonCriticalStatus) ==
    IF k > Len(mon.trackers)
    THEN [criticalStatus |-> criticalStatus, nonCriticalStatus |-> nonCriticalStatus]
    ELSE LET ssm == mon.trackers[k]
             cur == mon.subsystems[ssm.current].Status
         IN IF ssm.definition.NonCritical /\ cur > nonCriticalStatus
            THEN scanTrackers(mon, k + 1, criticalStatus, cur)
            ELSE IF ~ssm.definition.NonCritical /\ cur > criticalStatus
            THEN scanTrackers(mon, k + 1, cur, nonCriticalStatus)
            ELSE scanTrackers(mon, k + 1, criticalStatus, nonCriticalStatus)

\* overallStatus with the noncritical maximum taken as it is
overallStatusNonCriticalAsIs(criticalStatus, nonCriticalStatus) ==
    IF criticalStatus # StatusGood THEN criticalStatus
    ELSE IF nonCriticalStatus # StatusGood THEN nonCriticalStatus
    ELSE StatusGood

\* overallStatus whose default case is StatusWarn
overallStatusWarnByDefault(criticalStatus, nonCriticalStatus) ==
    IF criticalStatus # StatusGood THEN criticalStatus
    ELSE StatusWarn

\* the switch of unsafeUpdateStatus on the two maxima
overallStatus(criticalStatus, nonCriticalStatus) ==
    IF criticalStatus # StatusGood THEN criticalStatus
    ELSE IF nonCriticalStatus # StatusGood THEN StatusWarn
    ELSE StatusGood

\* unsafeUpdateStatus without the assignment to m.lastUpdate
unsafeUpdateStatusKeepsTime(mon, timestamp) ==
    LET scanned == scanTrackers(mon, 1, StatusGood, StatusGood)
    IN [mon EXCEPT
           !.status = overallStatus(scanned.criticalStatus,
                                    scanned.nonCriticalStatus)]

\* the Monitor after unsafeUpdateStatus(timestamp), before the dispatch
unsafeUpdateStatus(mon, timestamp) ==
    LET scanned == scanTrackers(mon, 1, StatusGood, StatusGood)
    IN [mon EXCEPT
           !.lastUpdate = timestamp,
           !.status = overallStatus(scanned.criticalStatus,
                                    scanned.nonCriticalStatus)]

\* a MonitorEvent whose Status field is left at its zero value
MonitorEventNoStatus(mon) ==
    [Status |-> StatusGood, LastUpdate |-> mon.lastUpdate,
     SubsystemCount |-> Len(mon.subsystems), Subsystems |-> mon.subsystems]

\* the MonitorEvent unsafeUpdateStatus builds; Subsystems is what the
\* iterator yields while the listeners run
MonitorEvent(mon) ==
    [Status |-> mon.status, LastUpdate |-> mon.lastUpdate,
     SubsystemCount |-> Len(mon.subsystems), Subsystems |-> mon.subsystems]

NoEvent ==
    [Status |-> StatusGood, LastUpdate |-> ZeroTime,
     SubsystemCount |-> 0, Subsystems |-> << >>]

\* no listener has been called
NothingReceived ==
    [calls |-> 0, by |-> [l \in ListenerIds |-> [n |-> 0, at |-> 0, last |-> NoEvent]]]

\* OnMonitorEvent that goes through the listeners from the last to the first
RECURSIVE OnMonitorEventLastFirst(_, _, _)
OnMonitorEventLastFirst(ls, e, rcv) ==
    IF ls = << >> THEN rcv
    ELSE LET l == ls[Len(ls)]
         IN OnMonitorEventLastFirst(SubSeq(ls, 1, Len(ls) - 1), e,
                [calls |-> rcv.calls + 1,
                 by |-> [rcv.by EXCEPT ![l] =
                            [n |-> @.n + 1, at |-> rcv.calls + 1, last |-> e]]])

\* MonitorListeners.OnMonitorEvent(e): each listener of ls in order; a
\* listener keeps how many events it was handed, the last one, and the
\* position of that call among all calls
RECURSIVE OnMonitorEvent(_, _, _)
OnMonitorEvent(ls, e, rcv) ==
    IF ls = << >> THEN rcv
    ELSE OnMonitorEvent(Tail(ls), e,
            [calls |-> rcv.calls + 1,
             by |-> [rcv.by EXCEPT ![Head(ls)] =
                        [n |-> @.n + 1, at |-> rcv.calls + 1, last |-> e]]])

\* Get without the nil check: a name that is not registered gets the
\* Updater of the first tracker
GetWithoutCheck(mon, n) ==
    [updater |-> IF n \in DOMAIN mon.byName THEN mon.byName[n] ELSE 1,
     err |-> NoError]

\* Monitor.Get(n): the Updater of subsystem n (the index of its tracker)
Get(mon, n) ==
    IF n \in DOMAIN mon.byName
    THEN [updater |-> mon.byName[n], err |-> NoError]
    ELSE [updater |-> 0, err |-> "No subsystem with the name is registered"]

----------------------------------------------------------------------------
(* Processes: the goroutines that call the Monitor *)

\* two goroutines of the application; a probe goroutine is <<ctx, k>>: the
\* lifetime context it was started under and its tracker
Callers == {<<0, 1>>, <<0, 2>>}
IsTask(p) == p[1] # 0

Errors == {NoError, ErrProbe}

\* the (status, error) pairs an Update is called with and a Probe returns
Reports == {<<StatusGood, NoError>>, <<StatusWarn, NoError>>, <<StatusBad, ErrProbe>>}

\* where a process stands.  pc of a caller: idle, lock, update (in Update) or
\* body (in Start and Shutdown), unlock.  pc of a probe goroutine: select, probe,
\* lock, update, unlock, done.
Proc(pc, op, i, s, err, r, deadline) ==
    [pc |-> pc, op |-> op, i |-> i, s |-> s, err |-> err, ret |-> r,
     deadline |-> deadline]

IdleCaller == Proc("idle", "none", 0, StatusGood, NoError, "none", 0)

\* a probe goroutine at the top of its loop at time t: newTimer(ProbeInterval)
\* has armed the timer and the goroutine waits in select
NewTask(mon, k, t) ==
    Proc("select", "Probe", k, StatusGood, NoError, "none",
         t + mon.trackers[k].definition.ProbeInterval)

\* startProbeTask without the check for a nil Probe: every tracker
ProbedOrNot(mon) == {k \in 1..Len(mon.trackers) : TRUE}

\* the trackers Start launches a goroutine for
Probed(mon) == {k \in 1..Len(mon.trackers) : mon.trackers[k].definition.Probe}

----------------------------------------------------------------------------
(* Initial states *)

\* the definitions the runs of the Monitor are told about
DefA(status, probe) == Definition("A", status, FALSE, probe, 1, NoAttributes)
DefB(status, probe) == Definition("B", status, TRUE, probe, 0, SomeAttributes)

\* the option lists the runs of the Monitor are constructed from
RunOptions ==
    { <<OptListeners(<<"L1">>), OptSubsystem(DefA(StatusGood, TRUE)),
        OptSubsystem(DefB(StatusGood, FALSE)), OptListeners(<<"L2">>)>>,
      <<OptDefaultProbeInterval(1), OptSubsystem(DefB(StatusBad, TRUE)),
        OptListeners(<<"L1", "L2">>)>>,
      <<OptSubsystems(<<DefA(StatusBad, FALSE)>>)>> }

\* what the runs are remembered by: the calls and timer firings so far, the
\* computations of the overall status, the last of Start and Shutdown that
\* returned nil, and for each probe goroutine the Updates it applied with its
\* context canceled
NoHistory == [nops |-> 0, recomputes |-> 0, lastOK |-> "none", late |-> << >>]

\* hist.late after an Update by p
LateUpdates(p) ==
    IF IsTask(p) /\ p[1] \in canceled
    THEN (p :> (IF p \in DOMAIN hist.late THEN hist.late[p] + 1 ELSE 1)) @@ hist.late
    ELSE hist.late

\* a Monitor right after NewMonitor returned it, nothing called yet
Init ==
    /\ opts \in RunOptions
    /\ now = 1
    /\ ret = NewMonitor(opts, now)
    /\ ret.err = NoError
    /\ m = ret.m[1]
    /\ canceled = {}
    /\ nctx = 0
    /\ procs = [c \in Callers |-> IdleCaller]
    /\ received = NothingReceived
    /\ hist = NoHistory

----------------------------------------------------------------------------
(* The clock *)

Tick ==
    /\ now < MaxTime
    /\ now' = now + 1
    /\ UNCHANGED <<opts, ret, m, canceled, nctx, procs, received, hist>>

----------------------------------------------------------------------------
(* Calls of the application *)

\* a caller calls Update(s, err) on the Updater that Get(n) returned
CallUpdate(c, n, s, err) ==
    /\ procs[c].pc = "idle"
    /\ hist.nops < MaxOps
    /\ Get(m, n).err = NoError
    /\ procs' = [procs EXCEPT ![c] =
                    Proc("lock", "Update", Get(m, n).updater, s, err, "none", 0)]
    /\ hist' = [hist EXCEPT !.nops = @ + 1]
    /\ UNCHANGED <<opts, ret, m, now, canceled, nctx, received>>

\* a caller calls Start()
CallStart(c) ==
    /\ procs[c].pc = "idle"
    /\ hist.nops < MaxOps
    /\ procs' = [procs EXCEPT ![c] = [IdleCaller EXCEPT !.pc = "lock", !.op = "Start"]]
    /\ hist' = [hist EXCEPT !.nops = @ + 1]
    /\ UNCHANGED <<opts, ret, m, now, canceled, nctx, received>>

\* a caller calls Shutdown()
CallShutdown(c) ==
    /\ procs[c].pc = "idle"
    /\ procs' = [procs EXCEPT ![c] = [IdleCaller EXCEPT !.pc = "lock", !.op = "Shutdown"]]
    /\ UNCHANGED <<opts, ret, m, now, canceled, nctx, received, hist>>

----------------------------------------------------------------------------
(* The lock *)

\* lock.Lock() that does not wait for the lock to be free
LockBarging(p) ==
    /\ procs[p].pc = "lock"
    /\ m' = [m EXCEPT !.lock.w = p]
    /\ procs' = [procs EXCEPT ![p].pc =
                    IF procs[p].op \in {"Update", "Probe"} THEN "update" ELSE "body"]
    /\ UNCHANGED <<opts, ret, now, canceled, nctx, received, hist>>

\* lock.Lock() of Update, Start and Shutdown
Lock(p) ==
    /\ procs[p].pc = "lock"
    /\ m.lock = Unlocked
    /\ m' = [m EXCEPT !.lock.w = p]
    /\ procs' = [procs EXCEPT ![p].pc =
                    IF procs[p].op \in {"Update", "Probe"} THEN "update" ELSE "body"]
    /\ UNCHANGED <<opts, ret, now, canceled, nctx, received, hist>>

\* the deferred lock.Unlock() after which a probe goroutine whose Probe
\* returned an error leaves its loop
UnlockStopsOnError(p) ==
    /\ procs[p].pc = "unlock"
    /\ m.lock.w = p
    /\ m' = [m EXCEPT !.lock.w = NoProc]
    /\ procs' = [procs EXCEPT ![p] =
                    IF ~IsTask(p) THEN IdleCaller
                    ELSE IF procs[p].err # NoError
                    THEN [procs[p] EXCEPT !.pc = "done", !.deadline = 0]
                    ELSE NewTask(m, procs[p].i, now)]
    /\ UNCHANGED <<opts, ret, now, canceled, nctx, received, hist>>

\* the deferred lock.Unlock() and the return.  A caller is idle again; a
\* probe goroutine goes round its loop.
Unlock(p) ==
    /\ procs[p].pc = "unlock"
    /\ m.lock.w = p
    /\ m' = [m EXCEPT !.lock.w = NoProc]
    /\ procs' = [procs EXCEPT ![p] =
                    IF IsTask(p) THEN NewTask(m, procs[p].i, now) ELSE IdleCaller]
    /\ UNCHANGED <<opts, ret, now, canceled, nctx, received, hist>>

----------------------------------------------------------------------------
(* subsystemTracker.Update, by a caller or by a probe goroutine *)

\* the assignments of Update without the one to LastError
updateCurrentKeepsError(mon, k, s, err, t) ==
    [mon EXCEPT !.subsystems[mon.trackers[k].current] =
        [@ EXCEPT !.Status = s, !.LastUpdate = t]]

\* the assignments of Update made to a slice in which every other Subsystem
\* is back at the Status of its definition
updateCurrentLosesOthers(mon, k, s, err, t) ==
    [mon EXCEPT !.subsystems =
        [j \in 1..Len(mon.subsystems) |->
            IF j = mon.trackers[k].current
            THEN [mon.subsystems[j] EXCEPT
                     !.Status = s, !.LastError = err, !.LastUpdate = t]
            ELSE [mon.subsystems[j] EXCEPT
                     !.Status = mon.trackers[j].definition.Status,
                     !.LastError = NoError]]]

\* the assignments of Update with the Monitor's previous timestamp instead
\* of the current time
updateCurrentStaleTime(mon, k, s, err, t) ==
    [mon EXCEPT !.subsystems[mon.trackers[k].current] =
        [@ EXCEPT !.Status = s, !.LastError = err, !.LastUpdate = mon.lastUpdate]]

\* the assignments of Update with the Status left as it was when an error
\* comes with it
updateCurrentErrorOnly(mon, k, s, err, t) ==
    [mon EXCEPT !.subsystems[mon.trackers[k].current] =
        [@ EXCEPT !.Status = IF err = NoError THEN s ELSE @,
                  !.LastError = err, !.LastUpdate = t]]

\* Update that assigns a new Subsystem value, which has no Attributes, in
\* place of the three assignments
updateCurrentNewSubsystem(mon, k, s, err, t) ==
    [mon EXCEPT !.subsystems[mon.trackers[k].current] =
        [@ EXCEPT !.Status = s, !.LastError = err, !.LastUpdate = t,
                  !.Attributes = NoAttributes]]

\* the Subsystem a tracker points at after the three assignments of Update
updateCurrent(mon, k, s, err, t) ==
    [mon EXCEPT !.subsystems[mon.trackers[k].current] =
        [@ EXCEPT !.Status = s, !.LastError = err, !.LastUpdate = t]]

\* Update that takes effect only while the Monitor is running
UpdateOnlyWhenRunning(p) ==
    /\ procs[p].pc = "update"
    /\ m.lock.w = p
    /\ LET k == procs[p].i
           updated == updateCurrent(m, k, procs[p].s, procs[p].err, now)
           mon == IF m.cancel = NoCancel THEN m
                  ELSE unsafeUpdateStatus(updated,
                           updated.subsystems[updated.trackers[k].current].LastUpdate)
       IN /\ m' = mon
          /\ received' = IF m.cancel = NoCancel THEN received
                         ELSE OnMonitorEvent(mon.listeners, MonitorEvent(mon), received)
    /\ procs' = [procs EXCEPT ![p].pc = "unlock"]
    /\ hist' = [hist EXCEPT !.recomputes = @ + 1, !.late = LateUpdates(p)]
    /\ UNCHANGED <<opts, ret, now, canceled, nctx>>

\* Update that calls the listeners only when the overall status changed
UpdateQuietWhenUnchanged(p) ==
    /\ procs[p].pc = "update"
    /\ m.lock.w = p
    /\ LET k == procs[p].i
           updated == updateCurrent(m, k, procs[p].s, procs[p].err, now)
           mon == unsafeUpdateStatus(updated,
                      updated.subsystems[updated.trackers[k].current].LastUpdate)
       IN /\ m' = mon
          /\ received' = IF mon.status = m.status THEN received
                         ELSE OnMonitorEvent(mon.listeners, MonitorEvent(mon), received)
    /\ procs' = [procs EXCEPT ![p].pc = "unlock"]
    /\ hist' = [hist EXCEPT !.recomputes = @ + 1, !.late = LateUpdates(p)]
    /\ UNCHANGED <<opts, ret, now, canceled, nctx>>

\* Update that hands unsafeUpdateStatus the LastUpdate the Subsystem had
\* before the assignments
UpdatePreviousTimestamp(p) ==
    /\ procs[p].pc = "update"
    /\ m.lock.w = p
    /\ LET k == procs[p].i
           updated == updateCurrent(m, k, procs[p].s, procs[p].err, now)
           mon == unsafeUpdateStatus(updated,
                      m.subsystems[m.trackers[k].current].LastUpdate)
       IN /\ m' = mon
          /\ received' = OnMonitorEvent(mon.listeners, MonitorEvent(mon), received)
    /\ procs' = [procs EXCEPT ![p].pc = "unlock"]
    /\ hist' = [hist EXCEPT !.recomputes = @ + 1, !.late = LateUpdates(p)]
    /\ UNCHANGED <<opts, ret, now, canceled, nctx>>

\* Update(s, err) under the lock: the assignments to ssm.current, then
\* ssm.unsafeUpdateStatus(ssm.current.LastUpdate): the overall status and the
\* event to every listener
Update(p) ==
    /\ procs[p].pc = "update"
    /\ m.lock.w = p
    /\ LET k == procs[p].i
           updated == updateCurrent(m, k, procs[p].s, procs[p].err, now)
           mon == unsafeUpdateStatus(updated,
                      updated.subsystems[updated.trackers[k].current].LastUpdate)
       IN /\ m' = mon
          /\ received' = OnMonitorEvent(mon.listeners, MonitorEvent(mon), received)
    /\ procs' = [procs EXCEPT ![p].pc = "unlock"]
    /\ hist' = [hist EXCEPT !.recomputes = @ + 1, !.late = LateUpdates(p)]
    /\ UNCHANGED <<opts, ret, now, canceled, nctx>>

----------------------------------------------------------------------------
(* Monitor.Start and Monitor.Shutdown, under the lock *)

\* Start that updates the overall status and dispatches the event before it
\* looks at m.cancel
StartRefusedAfterUpdate(c) ==
    /\ procs[c].pc = "body" /\ procs[c].op = "Start"
    /\ m.lock.w = c
    /\ m.cancel # NoCancel
    /\ LET mon == unsafeUpdateStatus(m, now)
       IN /\ m' = mon
          /\ received' = OnMonitorEvent(mon.listeners, MonitorEvent(mon), received)
    /\ procs' = [procs EXCEPT ![c].pc = "unlock", ![c].ret = ErrMonitorStarted]
    /\ UNCHANGED <<opts, ret, now, canceled, nctx, hist>>

\* Start with m.cancel set: ErrMonitorStarted
StartRefused(c) ==
    /\ procs[c].pc = "body" /\ procs[c].op = "Start"
    /\ m.lock.w = c
    /\ m.cancel # NoCancel
    /\ procs' = [procs EXCEPT ![c].pc = "unlock", ![c].ret = ErrMonitorStarted]
    /\ UNCHANGED <<opts, ret, m, now, canceled, nctx, received, hist>>

\* Start with m.cancel nil that does not keep the cancel function
StartRunForgetsCancel(c) ==
    /\ procs[c].pc = "body" /\ procs[c].op = "Start"
    /\ m.lock.w = c
    /\ m.cancel = NoCancel
    /\ LET mon == unsafeUpdateStatus(m, now)
           rootCtx == nctx + 1
       IN /\ m' = mon
          /\ received' = OnMonitorEvent(mon.listeners, MonitorEvent(mon), received)
          /\ nctx' = rootCtx
          /\ procs' = [p \in DOMAIN procs \cup {<<rootCtx, k>> : k \in Probed(m)} |->
                          IF p = c
                          THEN [procs[c] EXCEPT !.pc = "unlock", !.ret = NoError]
                          ELSE IF p \in DOMAIN procs THEN procs[p]
                          ELSE NewTask(m, p[2], now)]
    /\ hist' = [hist EXCEPT !.recomputes = @ + 1, !.lastOK = "Start"]
    /\ UNCHANGED <<opts, ret, now, canceled>>

\* Start with m.cancel nil: the overall status at the current time, the
\* event, a new lifetime context, and one goroutine per tracker with a Probe
StartRun(c) ==
    /\ procs[c].pc = "body" /\ procs[c].op = "Start"
    /\ m.lock.w = c
    /\ m.cancel = NoCancel
    /\ LET mon == unsafeUpdateStatus(m, now)
           rootCtx == nctx + 1
       IN /\ m' = [mon EXCEPT !.cancel = rootCtx]
          /\ received' = OnMonitorEvent(mon.listeners, MonitorEvent(mon), received)
          /\ nctx' = rootCtx
          /\ procs' = [p \in DOMAIN procs \cup {<<rootCtx, k>> : k \in Probed(m)} |->
                          IF p = c
                          THEN [procs[c] EXCEPT !.pc = "unlock", !.ret = NoError]
                          ELSE IF p \in DOMAIN procs THEN procs[p]
                          ELSE NewTask(m, p[2], now)]
    /\ hist' = [hist EXCEPT !.recomputes = @ + 1, !.lastOK = "Start"]
    /\ UNCHANGED <<opts, ret, now, canceled>>

\* Shutdown with m.cancel nil that returns nil
ShutdownRefusedSilently(c) ==
    /\ procs[c].pc = "body" /\ procs[c].op = "Shutdown"
    /\ m.lock.w = c
    /\ m.cancel = NoCancel
    /\ procs' = [procs EXCEPT ![c].pc = "unlock", ![c].ret = NoError]
    /\ UNCHANGED <<opts, ret, m, now, canceled, nctx, received, hist>>

\* Shutdown with m.cancel nil: ErrMonitorShutdown
ShutdownRefused(c) ==
    /\ procs[c].pc = "body" /\ procs[c].op = "Shutdown"
    /\ m.lock.w = c
    /\ m.cancel = NoCancel
    /\ procs' = [procs EXCEPT ![c].pc = "unlock", ![c].ret = ErrMonitorShutdown]
    /\ UNCHANGED <<opts, ret, m, now, canceled, nctx, received, hist>>

\* Shutdown with m.cancel set that also resets the overall status
ShutdownRunResetsStatus(c) ==
    /\ procs[c].pc = "body" /\ procs[c].op = "Shutdown"
    /\ m.lock.w = c
    /\ m.cancel # NoCancel
    /\ canceled' = canceled \cup {m.cancel}
    /\ m' = [m EXCEPT !.cancel = NoCancel, !.status = StatusGood]
    /\ procs' = [procs EXCEPT ![c].pc = "unlock", ![c].ret = NoError]
    /\ hist' = [hist EXCEPT !.lastOK = "Shutdown"]
    /\ UNCHANGED <<opts, ret, now, nctx, received>>

\* Shutdown with m.cancel set that calls it and keeps it
ShutdownRunKeepsCancel(c) ==
    /\ procs[c].pc = "body" /\ procs[c].op = "Shutdown"
    /\ m.lock.w = c
    /\ m.cancel # NoCancel
    /\ canceled' = canceled \cup {m.cancel}
    /\ procs' = [procs EXCEPT ![c].pc = "unlock", ![c].ret = NoError]
    /\ hist' = [hist EXCEPT !.lastOK = "Shutdown"]
    /\ UNCHANGED <<opts, ret, m, now, nctx, received>>

\* Shutdown with m.cancel set that waits, under the lock, until no probe
\* goroutine is in its Probe or in Update
ShutdownRunJoins(c) ==
    /\ procs[c].pc = "body" /\ procs[c].op = "Shutdown"
    /\ m.lock.w = c
    /\ m.cancel # NoCancel
    /\ \A t \in DOMAIN procs : IsTask(t) => procs[t].pc \in {"select", "done"}
    /\ canceled' = canceled \cup {m.cancel}
    /\ m' = [m EXCEPT !.cancel = NoCancel]
    /\ procs' = [procs EXCEPT ![c].pc = "unlock", ![c].ret = NoError]
    /\ hist' = [hist EXCEPT !.lastOK = "Shutdown"]
    /\ UNCHANGED <<opts, ret, now, nctx, received>>

\* Shutdown with m.cancel set: the context is canceled, m.cancel is nil
ShutdownRun(c) ==
    /\ procs[c].pc = "body" /\ procs[c].op = "Shutdown"
    /\ m.lock.w = c
    /\ m.cancel # NoCancel
    /\ canceled' = canceled \cup {m.cancel}
    /\ m' = [m EXCEPT !.cancel = NoCancel]
    /\ procs' = [procs EXCEPT ![c].pc = "unlock", ![c].ret = NoError]
    /\ hist' = [hist EXCEPT !.lastOK = "Shutdown"]
    /\ UNCHANGED <<opts, ret, now, nctx, received>>

----------------------------------------------------------------------------
(* The probe goroutine of startProbeTask *)

\* select takes <-ctx.Done() and the loop goes round again with a new timer
CtxDoneContinues(t) ==
    /\ procs[t].pc = "select"
    /\ t[1] \in canceled
    /\ procs' = [procs EXCEPT ![t] = NewTask(m, procs[t].i, now)]
    /\ UNCHANGED <<opts, ret, m, now, canceled, nctx, received, hist>>

\* select takes <-ctx.Done(): stop the timer, return
CtxDone(t) ==
    /\ procs[t].pc = "select"
    /\ t[1] \in canceled
    /\ procs' = [procs EXCEPT ![t].pc = "done", ![t].deadline = 0]
    /\ UNCHANGED <<opts, ret, m, now, canceled, nctx, received, hist>>

\* the goroutine takes the lock before it calls the Probe
TimerFireUnderLock(t) ==
    /\ procs[t].pc = "select"
    /\ now >= procs[t].deadline
    /\ hist.nops < MaxOps
    /\ m.lock = Unlocked
    /\ m' = [m EXCEPT !.lock.w = t]
    /\ procs' = [procs EXCEPT ![t].pc = "probe", ![t].deadline = 0]
    /\ hist' = [hist EXCEPT !.nops = @ + 1]
    /\ UNCHANGED <<opts, ret, now, canceled, nctx, received>>

\* select takes <-timeCh, which the timer has sent on: the Probe is called.
\* With both channels ready select takes either.
TimerFire(t) ==
    /\ procs[t].pc = "select"
    /\ now >= procs[t].deadline
    /\ hist.nops < MaxOps
    /\ procs' = [procs EXCEPT ![t].pc = "probe", ![t].deadline = 0]
    /\ hist' = [hist EXCEPT !.nops = @ + 1]
    /\ UNCHANGED <<opts, ret, m, now, canceled, nctx, received>>

\* the Probe returns (s, err) and the goroutine arms the next timer without
\* calling Update
ProbeReturnRearms(t, s, err) ==
    /\ procs[t].pc = "probe"
    /\ procs' = [procs EXCEPT ![t] = NewTask(m, procs[t].i, now)]
    /\ UNCHANGED <<opts, ret, m, now, canceled, nctx, received, hist>>

\* the Probe returns (s, err); Update(s, err) is called
ProbeReturn(t, s, err) ==
    /\ procs[t].pc = "probe"
    /\ procs' = [procs EXCEPT ![t].pc = "lock", ![t].s = s, ![t].err = err]
    /\ UNCHANGED <<opts, ret, m, now, canceled, nctx, received, hist>>

----------------------------------------------------------------------------
(* The specification of a constructed Monitor in use *)

Tasks == {p \in DOMAIN procs : IsTask(p)}

Next ==
    \/ Tick
    \/ \E c \in Callers, n \in Names, r \in Reports : CallUpdate(c, n, r[1], r[2])
    \/ \E c \in Callers : CallStart(c)
    \/ \E c \in Callers : CallShutdown(c)
    \/ \E p \in DOMAIN procs : Lock(p)
    \/ \E p \in DOMAIN procs : Update(p)
    \/ \E c \in Callers : StartRefused(c)
    \/ \E c \in Callers : StartRun(c)
    \/ \E c \in Callers : ShutdownRefused(c)
    \/ \E c \in Callers : ShutdownRun(c)
    \/ \E p \in DOMAIN procs : Unlock(p)
    \/ \E t \in Tasks : CtxDone(t)
    \/ \E t \in Tasks : TimerFire(t)
    \/ \E t \in Tasks, r \in Reports : ProbeReturn(t, r[1], r[2])

Spec == Init /\ [][Next]_vars

\* The same Monitor started and shut down while its clock runs on for longer,
\* updated by its probe goroutines only
TickRun ==
    /\ now < MaxRunTime
    /\ now' = now + 1
    /\ UNCHANGED <<opts, ret, m, canceled, nctx, procs, received, hist>>

NextRun ==
    \/ TickRun
    \/ \E c \in Callers : CallStart(c)
    \/ \E c \in Callers : CallShutdown(c)
    \/ \E p \in DOMAIN procs : Lock(p)
    \/ \E t \in Tasks : Update(t)
    \/ \E c \in Callers : StartRefused(c)
    \/ \E c \in Callers : StartRun(c)
    \/ \E c \in Callers : ShutdownRefused(c)
    \/ \E c \in Callers : ShutdownRun(c)
    \/ \E p \in DOMAIN procs : Unlock(p)
    \/ \E t \in Tasks : CtxDone(t)
    \/ \E t \in Tasks : TimerFire(t)
    \/ \E t \in Tasks, r \in Reports : ProbeReturn(t, r[1], r[2])

SpecRun == Init /\ [][NextRun]_vars

\* the Probe panics.  Nothing in the goroutine recovers, so the panic leaves
\* the goroutine's function and the runtime ends the program: every goroutine
\* ends with it, the callers' included.
ProbePanic(t) ==
    /\ procs[t].pc = "probe"
    /\ procs' = [p \in DOMAIN procs |-> [procs[p] EXCEPT !.pc = "exit"]]
    /\ UNCHANGED <<opts, ret, m, now, canceled, nctx, received, hist>>

\* the Monitor with Probes that may panic
NextPanic ==
    \/ NextRun
    \/ \E t \in Tasks : ProbePanic(t)

SpecPanic == Init /\ [][NextPanic]_vars

\* a step of a caller that holds the lock, up to its release
UnderLock(c) ==
    \/ Update(c)
    \/ StartRefused(c) \/ StartRun(c)
    \/ ShutdownRefused(c) \/ ShutdownRun(c)
    \/ Unlock(c)

\* a step of a probe goroutine after its select took <-timeCh
AfterTimer(t) ==
    \/ \E r \in Reports : ProbeReturn(t, r[1], r[2])
    \/ Lock(t)
    \/ Update(t)
    \/ Unlock(t)

\* The same Monitor under the scheduling the runtime gives: a caller that
\* holds the lock goes on to release it; a goroutine that can run does run and
\* a goroutine waiting for the lock gets it in the end (the mutex hands over
\* to a starving waiter); a select that is offered <-ctx.Done() again and
\* again takes it in the end (select chooses among its ready cases at random).
FairSpec ==
    /\ Spec
    /\ WF_vars(\E c \in Callers : UnderLock(c))
    /\ SF_vars(\E t \in Tasks : AfterTimer(t))
    /\ SF_vars(\E t \in Tasks : CtxDone(t))

----------------------------------------------------------------------------
(* The specification of construction: NewMonitor on a list of options *)

\* the definitions and options NewMonitor is tried on
NewDefinitions ==
    { Definition("A", StatusWarn, FALSE, TRUE, 0, NoAttributes),
      Definition("A", StatusGood, TRUE, FALSE, 1, SomeAttributes),
      Definition("B", StatusBad, TRUE, TRUE, 1, SomeAttributes),
      Definition("B", StatusGood, FALSE, TRUE, 0 - 1, NoAttributes) }

NewOptions ==
    {OptSubsystem(d) : d \in NewDefinitions}
    \cup {OptSubsystems(<<d, e>>) : d, e \in {x \in NewDefinitions : x.Probe}}
    \cup {OptListeners(<<"L1">>), OptListeners(<<"L2", "L1">>)}
    \cup {OptDefaultProbeInterval(0), OptDefaultProbeInterval(3)}

RECURSIVE OptionLists(_)
OptionLists(n) ==
    IF n = 0 THEN {<< >>}
    ELSE LET shorter == OptionLists(n - 1)
         IN shorter \cup {Append(os, o) : os \in shorter, o \in NewOptions}

InitNew ==
    /\ opts \in OptionLists(MaxOpts)
    /\ now = 1
    /\ ret = NotConstructed
    /\ m = EmptyMonitor
    /\ canceled = {}
    /\ nctx = 0
    /\ procs = [c \in Callers |-> IdleCaller]
    /\ received = NothingReceived
    /\ hist = NoHistory

\* the call NewMonitor(opts...)
Construct ==
    /\ ~ret.done
    /\ ret' = NewMonitor(opts, now)
    /\ m' = IF ret'.err = NoError THEN ret'.m[1] ELSE m
    /\ UNCHANGED <<opts, now, canceled, nctx, procs, received, hist>>

NextNew == Construct

SpecNew == InitNew /\ [][NextNew]_vars

----------------------------------------------------------------------------
(* The specification of probing: a started Monitor whose Probe may return
   any Status with any error *)

\* errors that carry a health status: AddStatus(err, StatusWarn), which
\* implements SelfStatuser, and an error that implements SelfBooler with
\* Status() true
ErrSelfWarn == "AddStatus(err, StatusWarn)"
ErrSelfTrue == "SelfBooler true"

\* the errors a Probe returns
ProbeErrors == {NoError, ErrProbe, ErrSelfWarn, ErrSelfTrue}

\* ErrorStatus(err): nil, then SelfStatuser, then SelfBooler, then any other
ErrorStatus(err) ==
    IF err = NoError THEN StatusGood
    ELSE IF err = ErrSelfWarn THEN StatusWarn
    ELSE IF err = ErrSelfTrue THEN StatusGood
    ELSE StatusBad

\* the Probe AsProbe makes of a closure func() error that returns err
AsProbeReturnError(err) == <<ErrorStatus(err), err>>

\* what a Probe returns: any (Status, error), among them those of the
\* Probes that AsProbe makes of closures returning just an error
ProbeResults ==
    {<<s, err>> : s \in Statuses, err \in ProbeErrors}
    \cup {AsProbeReturnError(err) : err \in ProbeErrors}

InitProbe ==
    /\ opts = <<OptListeners(<<"L1">>), OptSubsystem(DefA(StatusGood, TRUE))>>
    /\ now = 1
    /\ ret = NewMonitor(opts, now)
    /\ m = ret.m[1]
    /\ canceled = {}
    /\ nctx = 0
    /\ procs = [c \in Callers |-> IdleCaller]
    /\ received = NothingReceived
    /\ hist = NoHistory

NextProbe ==
    \/ Tick
    \/ \E c \in Callers : CallStart(c)
    \/ \E p \in DOMAIN procs : Lock(p)
    \/ \E c \in Callers : StartRefused(c)
    \/ \E c \in Callers : StartRun(c)
    \/ \E t \in Tasks : TimerFire(t)
    \/ \E t \in Tasks, r \in ProbeResults : ProbeReturn(t, r[1], r[2])
    \/ \E p \in DOMAIN procs : Update(p)
    \/ \E p \in DOMAIN procs : Unlock(p)

SpecProbe == InitProbe /\ [][NextProbe]_vars

----------------------------------------------------------------------------
(* The specification of a Monitor without subsystems, started and shut down *)

InitEmpty ==
    /\ opts \in {<< >>, <<OptListeners(<<"L1">>), OptDefaultProbeInterval(1)>>}
    /\ now = 1
    /\ ret = NewMonitor(opts, now)
    /\ m = ret.m[1]
    /\ canceled = {}
    /\ nctx = 0
    /\ procs = [c \in Callers |-> IdleCaller]
    /\ received = NothingReceived
    /\ hist = NoHistory

NextEmpty ==
    \/ Tick
    \/ \E c \in Callers : CallStart(c)
    \/ \E c \in Callers : CallShutdown(c)
    \/ \E c \in Callers : Lock(c)
    \/ \E c \in Callers : StartRefused(c)
    \/ \E c \in Callers : StartRun(c)
    \/ \E c \in Callers : ShutdownRefused(c)
    \/ \E c \in Callers : ShutdownRun(c)
    \/ \E c \in Callers : Unlock(c)

SpecEmpty == InitEmpty /\ [][NextEmpty]_vars

----------------------------------------------------------------------------
(* The Monitor that keeps a MonitorState: the revision whose NewMonitor,
   Update and Start store the overall state for State() to return.  Its
   Monitor has the field state where the other has status, lastUpdate and
   listeners; its Subsystem has Metadata where the other has Attributes. *)

\* AsSubsystems whose Subsystems shares the slice it is given
AsSubsystemsNoCopy(subs) == [shared |-> TRUE, ss |-> subs]

\* AsSubsystems(subs...): a Subsystems over a copy of the slice
AsSubsystems(subs) == [shared |-> FALSE, ss |-> subs]

\* the Subsystem values a Subsystems yields while the Monitor is mon: those
\* of its own slice, or of the Monitor's where it shares that
All(subsystems, mon) ==
    IF subsystems.shared THEN mon.subsystems ELSE subsystems.ss

\* subsystemTracker.initialize for every tracker: Name, Status, NonCritical,
\* Metadata and LastUpdate from the definition, the interval normalized
initialize(mon, initialLastUpdate) ==
    [mon EXCEPT
        !.subsystems = [k \in 1..Len(mon.trackers) |->
            [ZeroSubsystem EXCEPT
                !.Name = mon.trackers[k].definition.Name,
                !.Status = mon.trackers[k].definition.Status,
                !.NonCritical = mon.trackers[k].definition.NonCritical,
                !.Attributes = mon.trackers[k].definition.Attributes,
                !.LastUpdate = initialLastUpdate]],
        !.trackers = [k \in 1..Len(mon.trackers) |->
            [definition |-> [mon.trackers[k].definition EXCEPT
                                !.ProbeInterval = normalizeInterval(
                                    mon.trackers[k].definition,
                                    mon.defaultProbeInterval)],
             current |-> k]]]

\* unsafeUpdateState(timestamp): the overall status of the trackers, stored
\* with the timestamp and a copy of the subsystems
unsafeUpdateState(mon, timestamp) ==
    LET scanned == scanTrackers(mon, 1, StatusGood, StatusGood)
        overall == overallStatus(scanned.criticalStatus, scanned.nonCriticalStatus)
    IN [state |-> <<[Status |-> overall, LastUpdate |-> timestamp,
                     Subsystems |-> AsSubsystems(mon.subsystems)]>>]
       @@ mon

\* NewMonitor of this revision on options that apply: the trackers are
\* initialized and the state is stored
NewMonitorWithState(os, t) ==
    unsafeUpdateState(initialize(applyOptions(EmptyMonitor, os).m, t), t)

\* Monitor.State(): the MonitorState last stored; nothing stored is << >>
State(mon) == mon.state[1]

InitState ==
    /\ opts \in { <<OptSubsystems(<<DefA(StatusGood, FALSE), DefB(StatusBad, FALSE)>>)>>,
                  <<OptSubsystems(<<DefA(StatusWarn, FALSE)>>)>> }
    /\ now = 1
    /\ ret = NewMonitor(opts, now)
    /\ m = NewMonitorWithState(opts, now)
    /\ canceled = {}
    /\ nctx = 0
    /\ procs = [c \in Callers |-> IdleCaller]
    /\ received = NothingReceived
    /\ hist = NoHistory

\* a caller calls State() and keeps the MonitorState it returns
CallState(c) ==
    /\ procs[c].pc = "idle"
    /\ procs' = [procs EXCEPT ![c] =
                    [IdleCaller EXCEPT !.op = "State", !.ret = State(m)]]
    /\ UNCHANGED <<opts, ret, m, now, canceled, nctx, received, hist>>

\* Update(s, err) under the lock: the assignments to sst.current, then
\* unsafeUpdateState(sst.current.LastUpdate)
UpdateState(p) ==
    /\ procs[p].pc = "update"
    /\ m.lock.w = p
    /\ LET k == procs[p].i
           updated == updateCurrent(m, k, procs[p].s, procs[p].err, now)
       IN m' = unsafeUpdateState(updated,
                   updated.subsystems[updated.trackers[k].current].LastUpdate)
    /\ procs' = [procs EXCEPT ![p].pc = "unlock"]
    /\ hist' = [hist EXCEPT !.recomputes = @ + 1]
    /\ UNCHANGED <<opts, ret, now, canceled, nctx, received>>

\* Start with m.cancel nil: the state at the current time and a new lifetime
\* context; the trackers here have no Probe, so no goroutine is launched
StartRunState(c) ==
    /\ procs[c].pc = "body" /\ procs[c].op = "Start"
    /\ m.lock.w = c
    /\ m.cancel = NoCancel
    /\ Probed(m) = {}
    /\ m' = [unsafeUpdateState(m, now) EXCEPT !.cancel = nctx + 1]
    /\ nctx' = nctx + 1
    /\ procs' = [procs EXCEPT ![c].pc = "unlock", ![c].ret = NoError]
    /\ hist' = [hist EXCEPT !.recomputes = @ + 1, !.lastOK = "Start"]
    /\ UNCHANGED <<opts, ret, now, canceled, received>>

NextState ==
    \/ Tick
    \/ \E c \in Callers : CallState(c)
    \/ \E c \in Callers, n \in Names, r \in Reports : CallUpdate(c, n, r[1], r[2])
    \/ \E c \in Callers : CallStart(c)
    \/ \E c \in Callers : CallShutdown(c)
    \/ \E c \in Callers : Lock(c)
    \/ \E c \in Callers : UpdateState(c)
    \/ \E c \in Callers : StartRefused(c)
    \/ \E c \in Callers : StartRunState(c)
    \/ \E c \in Callers : ShutdownRefused(c)
    \/ \E c \in Callers : ShutdownRun(c)
    \/ \E c \in Callers : Unlock(c)

SpecState == InitState /\ [][NextState]_vars

----------------------------------------------------------------------------
(* The specification of ErrorStatus and AddStatus on chains of errors *)

\* An error is the chain Unwrap walks, outermost first; nil is << >>.  A
\* link is a plain error, a SelfStatuser with its Status(), or a SelfBooler
\* with its Status().
PlainError == [kind |-> "error", status |-> StatusGood, ok |-> FALSE]
SelfStatuser(status) == [kind |-> "SelfStatuser", status |-> status, ok |-> FALSE]
SelfBooler(ok) == [kind |-> "SelfBooler", status |-> StatusGood, ok |-> ok]

ErrorLinks ==
    {PlainError} \cup {SelfStatuser(st) : st \in Statuses}
    \cup {SelfBooler(b) : b \in BOOLEAN}

RECURSIVE ErrorChains(_)
ErrorChains(n) ==
    IF n = 0 THEN {<< >>}
    ELSE LET shorter == ErrorChains(n - 1)
         IN shorter \cup {<<l>> \o e : l \in ErrorLinks, e \in shorter}

\* errors.As(err, &target): the first error of the chain that is of the
\* target's kind, in a sequence; none is << >>
RECURSIVE As(_, _)
As(err, kind) ==
    IF err = << >> THEN << >>
    ELSE IF Head(err).kind = kind THEN <<Head(err)>>
    ELSE As(Tail(err), kind)

\* AddStatus(err, status): a statusError that wraps err
AddStatus(err, status) == <<SelfStatuser(status)>> \o err

\* ErrorStatus with the SelfBooler case before the SelfStatuser case
ErrorStatusBoolerFirst(err) ==
    IF err = << >> THEN StatusGood
    ELSE IF As(err, "SelfBooler") # << >>
    THEN (IF As(err, "SelfBooler")[1].ok THEN StatusGood ELSE StatusBad)
    ELSE IF As(err, "SelfStatuser") # << >> THEN As(err, "SelfStatuser")[1].status
    ELSE StatusBad

\* ErrorStatus(err) on a chain: the switch in its order
ErrorStatusOfChain(err) ==
    IF err = << >> THEN StatusGood
    ELSE IF As(err, "SelfStatuser") # << >> THEN As(err, "SelfStatuser")[1].status
    ELSE IF As(err, "SelfBooler") # << >>
    THEN (IF As(err, "SelfBooler")[1].ok THEN StatusGood ELSE StatusBad)
    ELSE StatusBad

\* no function has been called on the error yet
NotCalled ==
    [called |-> FALSE, status |-> StatusGood,
     added |-> FALSE, arg |-> StatusGood, err |-> << >>, addedStatus |-> StatusGood]

InitError ==
    /\ opts \in ErrorChains(MaxChain)
    /\ now = 1
    /\ ret = NotCalled
    /\ m = EmptyMonitor
    /\ canceled = {}
    /\ nctx = 0
    /\ procs = [c \in Callers |-> IdleCaller]
    /\ received = NothingReceived
    /\ hist = NoHistory

\* the call ErrorStatus(err) on the error opts
CallErrorStatus ==
    /\ ~ret.called
    /\ ret' = [ret EXCEPT !.called = TRUE, !.status = ErrorStatusOfChain(opts)]
    /\ UNCHANGED <<opts, m, now, canceled, nctx, procs, received, hist>>

\* the calls e := AddStatus(err, status) and ErrorStatus(e) on the error opts
CallAddStatus(status) ==
    /\ ~ret.added
    /\ ret' = [ret EXCEPT !.added = TRUE, !.arg = status,
                          !.err = AddStatus(opts, status),
                          !.addedStatus = ErrorStatusOfChain(AddStatus(opts, status))]
    /\ UNCHANGED <<opts, m, now, canceled, nctx, procs, received, hist>>

NextError ==
    \/ CallErrorStatus
    \/ \E status \in Statuses : CallAddStatus(status)

SpecError == InitError /\ [][NextError]_vars

----------------------------------------------------------------------------
(* The specification of AsProbe on the closures of ProbeFunc *)

\* the reflect.Type of each closure AsProbe accepts
probeReturnBool == "func() bool"
probeContextReturnBool == "func(context.Context) bool"
probeReturnError == "func() error"
probeContextReturnError == "func(context.Context) error"
probeReturnStatus == "func() Status"
probeContextReturnStatus == "func(context.Context) Status"
probeReturnStatusError == "func() (Status, error)"
probeContextReturnStatusError == "func(context.Context) (Status, error)"

\* the contexts a Probe is called with, and none for a closure without one
Contexts == {"ctx1", "ctx2"}
NoContext == "none"

\* a closure of a type, with what it returns when called
Closure(type, b, err, status) == [type |-> type, b |-> b, err |-> err, status |-> status]

\* ProbeFunc: the closures of the eight types, over what they can return
ProbeFunc ==
    {Closure(t, b, NoError, StatusGood) :
        t \in {probeReturnBool, probeContextReturnBool}, b \in BOOLEAN}
    \cup {Closure(t, FALSE, err, StatusGood) :
        t \in {probeReturnError, probeContextReturnError}, err \in ProbeErrors}
    \cup {Closure(t, FALSE, NoError, st) :
        t \in {probeReturnStatus, probeContextReturnStatus}, st \in Statuses}
    \cup {Closure(t, FALSE, err, st) :
        t \in {probeReturnStatusError, probeContextReturnStatusError},
        err \in ProbeErrors, st \in Statuses}

\* fv.CanConvert(t): a func value converts to its own func type only
CanConvert(fv, t) == fv.type = t

\* fv.Convert(t).Interface().(T): the closure, or a panic when the
\* conversion is not allowed
Convert(fv, t) == [panic |-> ~CanConvert(fv, t), pf |-> fv]

\* the Probe AsProbe returns around a converted closure: how it calls the
\* closure and what it makes of the result
Adapter(converted, takesCtx, returns) ==
    [panic |-> converted.panic, pf |-> converted.pf,
     takesCtx |-> takesCtx, returns |-> returns]

\* AsProbe(f): the switch over the types in its order
AsProbe(f) ==
    IF CanConvert(f, probeReturnBool)
    THEN Adapter(Convert(f, probeReturnBool), FALSE, "bool")
    ELSE IF CanConvert(f, probeContextReturnBool)
    THEN Adapter(Convert(f, probeContextReturnBool), TRUE, "bool")
    ELSE IF CanConvert(f, probeReturnError)
    THEN Adapter(Convert(f, probeReturnError), FALSE, "error")
    ELSE IF CanConvert(f, probeContextReturnError)
    THEN Adapter(Convert(f, probeContextReturnError), TRUE, "error")
    ELSE IF CanConvert(f, probeReturnStatus)
    THEN Adapter(Convert(f, probeReturnStatus), FALSE, "Status")
    ELSE IF CanConvert(f, probeContextReturnStatus)
    THEN Adapter(Convert(f, probeContextReturnError), TRUE, "Status")
    ELSE IF CanConvert(f, probeReturnStatusError)
    THEN Adapter(Convert(f, probeReturnStatusError), FALSE, "StatusError")
    ELSE Adapter(Convert(f, probeContextReturnStatusError), TRUE, "StatusError")

\* what the Probe returns from one call of its closure
ProbeResult(probe) ==
    IF probe.returns = "bool"
    THEN (IF probe.pf.b THEN <<StatusGood, NoError>> ELSE <<StatusBad, NoError>>)
    ELSE IF probe.returns = "error" THEN AsProbeReturnError(probe.pf.err)
    ELSE IF probe.returns = "Status" THEN <<probe.pf.status, NoError>>
    ELSE <<probe.pf.status, probe.pf.err>>

\* AsProbe has not been called
NotConverted ==
    [converted |-> FALSE, panic |-> FALSE, probe |-> << >>,
     invoked |-> 0, calls |-> 0, ctx |-> NoContext, seen |-> NoContext,
     result |-> << >>]

InitAsProbe ==
    /\ opts \in ProbeFunc
    /\ now = 1
    /\ ret = NotConverted
    /\ m = EmptyMonitor
    /\ canceled = {}
    /\ nctx = 0
    /\ procs = [c \in Callers |-> IdleCaller]
    /\ received = NothingReceived
    /\ hist = NoHistory

\* the call AsProbe(f) on the closure opts
CallAsProbe ==
    /\ ~ret.converted
    /\ ret' = [ret EXCEPT !.converted = TRUE,
                          !.panic = AsProbe(opts).panic,
                          !.probe = <<AsProbe(opts)>>]
    /\ UNCHANGED <<opts, m, now, canceled, nctx, procs, received, hist>>

\* one call of the returned Probe with a context
CallProbe(ctx) ==
    /\ ret.converted
    /\ ~ret.panic
    /\ ret.invoked < MaxCalls
    /\ ret' = [ret EXCEPT !.invoked = @ + 1,
                          !.calls = @ + 1,
                          !.ctx = ctx,
                          !.seen = IF ret.probe[1].takesCtx THEN ctx ELSE NoContext,
                          !.result = ProbeResult(ret.probe[1])]
    /\ UNCHANGED <<opts, m, now, canceled, nctx, procs, received, hist>>

NextAsProbe ==
    \/ CallAsProbe
    \/ \E ctx \in Contexts : CallProbe(ctx)

SpecAsProbe == InitAsProbe /\ [][NextAsProbe]_vars

----------------------------------------------------------------------------
(* The specification of a Monitor whose listener calls back into it, and of
   Status next to Update, Start and Shutdown *)

\* the calls a listener can make on the Monitor from OnMonitorEvent
ListenerCalls == {"Update", "Start", "Shutdown", "Status"}

\* a caller calls Status()
CallStatus(c) ==
    /\ procs[c].pc = "idle"
    /\ procs' = [procs EXCEPT ![c] = [IdleCaller EXCEPT !.pc = "rlock", !.op = "Status"]]
    /\ UNCHANGED <<opts, ret, m, now, canceled, nctx, received, hist>>

\* sync.RWMutex that lets the process holding the write lock lock again
AcquirableReentrant(mon, p, op) ==
    IF op = "Status" THEN mon.lock.w \in {NoProc, p}
    ELSE mon.lock.w \in {NoProc, p} /\ mon.lock.r = {}

\* sync.RWMutex: RLock of Status goes ahead when no process holds the write
\* lock and none is waiting in Lock for it (a call of Lock holds new readers
\* back until it has had the lock), Lock of Update, Start and Shutdown when no
\* process holds the lock at all, the calling process included
Acquirable(mon, p, op) ==
    IF op = "Status"
    THEN mon.lock.w = NoProc /\ \A q \in DOMAIN procs : procs[q].pc # "lock"
    ELSE mon.lock = Unlocked

\* lock.RLock() of Status, followed by current = m.status, and lock.Lock() of
\* Update, Start and Shutdown, by a caller, a probe goroutine or a listener
\* that the process holding the lock is calling
Acquire(p) ==
    /\ procs[p].pc \in {"lock", "rlock", "listener"}
    /\ LET op == IF procs[p].pc = "listener" THEN procs[p].ret ELSE procs[p].op
       IN /\ Acquirable(m, p, op)
          /\ m' = IF op = "Status"
                  THEN [m EXCEPT !.lock.r = @ \cup {p}]
                  ELSE [m EXCEPT !.lock.w = p]
          /\ procs' = [procs EXCEPT
                          ![p].pc =
                              IF procs[p].pc = "listener" THEN "nested"
                              ELSE IF op = "Status" THEN "runlock"
                              ELSE IF op \in {"Update", "Probe"} THEN "update"
                              ELSE "body",
                          ![p].s = IF procs[p].pc = "rlock" THEN m.status ELSE @]
    /\ UNCHANGED <<opts, ret, now, canceled, nctx, received, hist>>

\* Status under the read lock: RUnlock and the return of current
RUnlock(c) ==
    /\ procs[c].pc = "runlock"
    /\ c \in m.lock.r
    /\ m' = [m EXCEPT !.lock.r = @ \ {c}]
    /\ procs' = [procs EXCEPT ![c] = IdleCaller]
    /\ UNCHANGED <<opts, ret, now, canceled, nctx, received, hist>>

\* Update(s, err) under the lock, up to the call of the first listener, which
\* calls a method of the Monitor from OnMonitorEvent
UpdateReentered(p, call) ==
    /\ procs[p].pc = "update"
    /\ m.lock.w = p
    /\ Len(m.listeners) > 0
    /\ LET k == procs[p].i
           updated == updateCurrent(m, k, procs[p].s, procs[p].err, now)
           mon == unsafeUpdateStatus(updated,
                      updated.subsystems[updated.trackers[k].current].LastUpdate)
       IN /\ m' = mon
          /\ received' = OnMonitorEvent(<<mon.listeners[1]>>, MonitorEvent(mon), received)
    /\ procs' = [procs EXCEPT ![p].pc = "listener", ![p].ret = call]
    /\ hist' = [hist EXCEPT !.recomputes = @ + 1]
    /\ UNCHANGED <<opts, ret, now, canceled, nctx>>

\* Start with m.cancel nil, up to the call of the first listener, which calls
\* a method of the Monitor from OnMonitorEvent
StartRunReentered(c, call) ==
    /\ procs[c].pc = "body" /\ procs[c].op = "Start"
    /\ m.lock.w = c
    /\ m.cancel = NoCancel
    /\ Len(m.listeners) > 0
    /\ LET mon == unsafeUpdateStatus(m, now)
       IN /\ m' = mon
          /\ received' = OnMonitorEvent(<<mon.listeners[1]>>, MonitorEvent(mon), received)
    /\ procs' = [procs EXCEPT ![c].pc = "listener", ![c].ret = call]
    /\ hist' = [hist EXCEPT !.recomputes = @ + 1]
    /\ UNCHANGED <<opts, ret, now, canceled, nctx>>

\* the option lists of the Monitors with a listener and no Probe
ListenerOptions ==
    { <<OptListeners(<<"L1">>), OptSubsystem(DefA(StatusGood, FALSE))>>,
      <<OptSubsystems(<<DefA(StatusWarn, FALSE), DefB(StatusGood, FALSE)>>),
        OptListeners(<<"L2", "L1">>)>> }

InitListener ==
    /\ opts \in ListenerOptions
    /\ now = 1
    /\ ret = NewMonitor(opts, now)
    /\ ret.err = NoError
    /\ m = ret.m[1]
    /\ canceled = {}
    /\ nctx = 0
    /\ procs = [c \in Callers |-> IdleCaller]
    /\ received = NothingReceived
    /\ hist = NoHistory

NextListener ==
    \/ \E c \in Callers, n \in Names, r \in Reports : CallUpdate(c, n, r[1], r[2])
    \/ \E c \in Callers : CallStart(c)
    \/ \E c \in Callers : CallShutdown(c)
    \/ \E c \in Callers : CallStatus(c)
    \/ \E p \in DOMAIN procs : Acquire(p)
    \/ \E c \in Callers : Update(c)
    \/ \E c \in Callers, call \in ListenerCalls : UpdateReentered(c, call)
    \/ \E c \in Callers : StartRefused(c)
    \/ \E c \in Callers : StartRun(c)
    \/ \E c \in Callers, call \in ListenerCalls : StartRunReentered(c, call)
    \/ \E c \in Callers : ShutdownRefused(c)
    \/ \E c \in Callers : ShutdownRun(c)
    \/ \E c \in Callers : Unlock(c)
    \/ \E c \in Callers : RUnlock(c)

SpecListener == InitListener /\ [][NextListener]_vars

----------------------------------------------------------------------------
(* The specification of a Monitor with two Probes under every call: Update,
   Status, Start and Shutdown next to the probe goroutines *)

CallsOptions ==
    <<OptDefaultProbeInterval(1), OptListeners(<<"L1">>),
      OptSubsystems(<<DefA(StatusGood, TRUE), DefB(StatusGood, TRUE)>>)>>

InitCalls ==
    /\ opts = CallsOptions
    /\ now = 1
    /\ ret = NewMonitor(opts, now)
    /\ ret.err = NoError
    /\ m = ret.m[1]
    /\ canceled = {}
    /\ nctx = 0
    /\ procs = [c \in Callers |-> IdleCaller]
    /\ received = NothingReceived
    /\ hist = NoHistory

NextCalls ==
    \/ Tick
    \/ \E c \in Callers, n \in Names : CallUpdate(c, n, StatusWarn, NoError)
    \/ \E c \in Callers : CallStart(c)
    \/ \E c \in Callers : CallShutdown(c)
    \/ \E c \in Callers : CallStatus(c)
    \/ \E p \in DOMAIN procs : Acquire(p)
    \/ \E p \in DOMAIN procs : Update(p)
    \/ \E c \in Callers : StartRefused(c)
    \/ \E c \in Callers : StartRun(c)
    \/ \E c \in Callers : ShutdownRefused(c)
    \/ \E c \in Callers : ShutdownRun(c)
    \/ \E p \in DOMAIN procs : Unlock(p)
    \/ \E c \in Callers : RUnlock(c)
    \/ \E t \in Tasks : CtxDone(t)
    \/ \E t \in Tasks : TimerFire(t)
    \/ \E t \in Tasks : ProbeReturn(t, StatusBad, ErrProbe)

SpecCalls == InitCalls /\ [][NextCalls]_vars

----------------------------------------------------------------------------
(* The specification of one subsystem with a Probe under every call, and its
   scheduling *)

LiveOptions == <<OptListeners(<<"L1">>), OptSubsystem(DefA(StatusGood, TRUE))>>

InitLive ==
    /\ opts = LiveOptions
    /\ now = 1
    /\ ret = NewMonitor(opts, now)
    /\ ret.err = NoError
    /\ m = ret.m[1]
    /\ canceled = {}
    /\ nctx = 0
    /\ procs = [c \in Callers |-> IdleCaller]
    /\ received = NothingReceived
    /\ hist = NoHistory

NextLive ==
    \/ Tick
    \/ \E c \in Callers : CallUpdate(c, "A", StatusWarn, NoError)
    \/ \E c \in Callers : CallStart(c)
    \/ \E c \in Callers : CallShutdown(c)
    \/ \E c \in Callers : CallStatus(c)
    \/ \E p \in DOMAIN procs : Acquire(p)
    \/ \E p \in DOMAIN procs : Update(p)
    \/ \E c \in Callers : StartRefused(c)
    \/ \E c \in Callers : StartRun(c)
    \/ \E c \in Callers : ShutdownRefused(c)
    \/ \E c \in Callers : ShutdownRun(c)
    \/ \E p \in DOMAIN procs : Unlock(p)
    \/ \E c \in Callers : RUnlock(c)
    \/ \E t \in Tasks : CtxDone(t)
    \/ \E t \in Tasks : TimerFire(t)
    \/ \E t \in Tasks : ProbeReturn(t, StatusBad, ErrProbe)

SpecLive == InitLive /\ [][NextLive]_vars

\* the probe goroutines there can be: one per Start
TaskIds == {<<ctx, 1>> : ctx \in 1..MaxOps}

\* a step of a process in Update, Status, Start or Shutdown: it gets the
\* lock, or goes on under the lock up to its release
InLock(p) ==
    \/ Acquire(p)
    \/ Update(p)
    \/ StartRefused(p) \/ StartRun(p)
    \/ ShutdownRefused(p) \/ ShutdownRun(p)
    \/ Unlock(p)
    \/ RUnlock(p)

\* The same under the scheduling the runtime gives.  A process that holds the
\* lock goes on to release it, and a process waiting in Lock or RLock gets
\* the lock in the end: sync.RWMutex hands the lock to a waiter that has been
\* starved, and lets no new reader in front of a waiting writer.  A Probe
\* returns.
FairLive ==
    /\ SpecLive
    /\ \A c \in Callers : SF_vars(InLock(c))
    /\ \A t \in TaskIds : SF_vars(t \in DOMAIN procs /\ InLock(t))
    /\ WF_vars(\E t \in Tasks : ProbeReturn(t, StatusBad, ErrProbe))

----------------------------------------------------------------------------
(* Properties *)

\* the trackers of critical and of noncritical subsystems
Critical(mon) ==
    {k \in 1..Len(mon.trackers) : ~mon.trackers[k].definition.NonCritical}
NonCritical(mon) ==
    {k \in 1..Len(mon.trackers) : mon.trackers[k].definition.NonCritical}
StatusOf(mon, k) == mon.subsystems[mon.trackers[k].current].Status

\* the aggregation formula: Bad if any critical subsystem is Bad; else Warn
\* if any critical subsystem is Warn or any noncritical one is not Good;
\* else Good
Aggregate(mon) ==
    IF \E k \in Critical(mon) : StatusOf(mon, k) = StatusBad THEN StatusBad
    ELSE IF \/ \E k \in Critical(mon) : StatusOf(mon, k) = StatusWarn
            \/ \E k \in NonCritical(mon) : StatusOf(mon, k) # StatusGood
    THEN StatusWarn
    ELSE StatusGood

\* C1: once the overall status has been recomputed (by an Update or by a
\* successful Start), in every state, whatever the interleaving of callers and
\* probe goroutines, the overall status is the aggregation formula over the
\* current statuses of the subsystems.
C1_StatusIsAggregate ==
    hist.recomputes > 0 => m.status = Aggregate(m)

\* C1 witness: several recomputes have completed, the lock is free, and the
\* overall status is Bad while a noncritical subsystem is Good.
C1_Witness ==
    /\ hist.recomputes >= 2
    /\ m.lock = Unlocked
    /\ m.status = StatusBad
    /\ \E k \in NonCritical(m) : StatusOf(m, k) = StatusGood

\* C2: right after NewMonitor, before any Start or Update is called, the
\* overall status is the aggregation formula over the initial statuses.
C2_InitialStatusIsAggregate ==
    (hist.nops = 0 /\ hist.recomputes = 0) => m.status = Aggregate(m)

\* C3: the overall status is Bad only if a critical subsystem is Bad.
C3_BadOnlyIfCriticalBad ==
    m.status = StatusBad => \E k \in Critical(m) : StatusOf(m, k) = StatusBad

\* C3 witness: an Update made a noncritical subsystem Bad, no critical
\* subsystem is Bad, and the recomputed overall status is Warn.
C3_Witness ==
    /\ hist.recomputes > 0
    /\ \E k \in NonCritical(m) :
          /\ StatusOf(m, k) = StatusBad
             /\ m.subsystems[m.trackers[k].current].LastError = ErrProbe
    /\ ~\E k \in Critical(m) : StatusOf(m, k) = StatusBad
    /\ m.status = StatusWarn

\* the definitions the options hold, in order
RECURSIVE DefinitionsOf(_)
DefinitionsOf(os) ==
    IF os = << >> THEN << >>
    ELSE (IF Head(os).kind \in {"WithSubsystem", "WithSubsystems"}
          THEN Head(os).defs ELSE << >>) \o DefinitionsOf(Tail(os))

DuplicateName(defs) ==
    \E i, j \in 1..Len(defs) : i < j /\ defs[i].Name = defs[j].Name

\* C4: NewMonitor on options that define a name twice (in one option or in
\* two) returns an error and a nil Monitor; with all names distinct it returns
\* a Monitor that has one subsystem per definition, in order.
C4_DuplicateNameFails ==
    ret.done =>
        LET defs == DefinitionsOf(opts)
        IN IF DuplicateName(defs)
           THEN ret.err # NoError /\ ret.m = << >>
           ELSE /\ ret.err = NoError
                /\ Len(ret.m) = 1
                /\ m = ret.m[1]
                /\ Len(m.trackers) = Len(defs)
                /\ Len(m.subsystems) = Len(defs)
                /\ DOMAIN m.byName = {defs[k].Name : k \in 1..Len(defs)}
                /\ \A k \in 1..Len(defs) :
                      /\ m.trackers[k].definition.Name = defs[k].Name
                      /\ m.trackers[k].current = k
                      /\ m.byName[defs[k].Name] = k

\* C4 witness: NewMonitor has failed on a name defined by two options.
C4_Witness ==
    /\ ret.done
    /\ ret.err = ErrSubsystemExists
    /\ ret.m = << >>
    /\ \E i, j \in 1..Len(opts) :
          /\ i < j
          /\ opts[i].kind = "WithSubsystem" /\ opts[j].kind = "WithSubsystem"
          /\ opts[i].defs[1].Name = opts[j].defs[1].Name

\* a caller that is in the body of op and leaves it in this step
Returns(c, op) ==
    /\ procs[c].pc = "body" /\ procs[c].op = op
    /\ procs'[c].pc = "unlock"

\* the Subsystem a tracker points at
CurrentOf(mon, k) == mon.subsystems[mon.trackers[k].current]

\* C5: Start on a Monitor whose last successful lifecycle call was Start
\* returns ErrMonitorStarted and changes nothing: overall status, overall
\* timestamp and subsystem snapshots stay, no listener receives an event, no
\* lifetime context is created and no probe goroutine is launched.
C5_SecondStartHasNoEffect ==
    [][\A c \in Callers :
          (Returns(c, "Start") /\ hist.lastOK = "Start") =>
              /\ procs'[c].ret = ErrMonitorStarted
              /\ m'.status = m.status
              /\ m'.lastUpdate = m.lastUpdate
              /\ m'.subsystems = m.subsystems
              /\ m'.cancel = m.cancel
              /\ received' = received
              /\ nctx' = nctx
              /\ canceled' = canceled
              /\ DOMAIN procs' = DOMAIN procs]_vars

\* C5 witness: a Start has been refused on a started Monitor whose listeners
\* have the event of the first Start only.
C5_Witness ==
    /\ hist.lastOK = "Start"
    /\ nctx = 1
    /\ received.calls = Len(m.listeners)
    /\ received.calls > 0
    /\ \E c \in Callers :
          /\ procs[c].pc = "unlock" /\ procs[c].op = "Start"
          /\ procs[c].ret = ErrMonitorStarted

\* C6: Shutdown on a Monitor that is not running (never started, or shut
\* down since the last Start) returns ErrMonitorShutdown and changes nothing:
\* no context is canceled, and the Monitor and what its listeners received
\* stay as they are.
C6_ShutdownNotRunningHasNoEffect ==
    [][\A c \in Callers :
          (Returns(c, "Shutdown") /\ hist.lastOK \in {"none", "Shutdown"}) =>
              /\ procs'[c].ret = ErrMonitorShutdown
              /\ canceled' = canceled
              /\ m' = m
              /\ received' = received
              /\ nctx' = nctx
              /\ DOMAIN procs' = DOMAIN procs]_vars

\* C6 witness: a Shutdown has been refused after an earlier Shutdown had
\* succeeded.
C6_Witness ==
    /\ hist.lastOK = "Shutdown"
    /\ canceled = {1}
    /\ \E c \in Callers :
          /\ procs[c].pc = "unlock" /\ procs[c].op = "Shutdown"
          /\ procs[c].ret = ErrMonitorShutdown

\* C7: the successful Start and Shutdown calls alternate, beginning with
\* Start: a Start returns nil exactly when no lifecycle call has succeeded yet
\* or the last one that did was Shutdown, and ErrMonitorStarted otherwise; a
\* Shutdown returns nil exactly when the last one that did was Start, and
\* ErrMonitorShutdown otherwise.
C7_StartShutdownAlternate ==
    [][\A c \in Callers :
          /\ Returns(c, "Start") =>
                procs'[c].ret = IF hist.lastOK \in {"none", "Shutdown"}
                                THEN NoError ELSE ErrMonitorStarted
          /\ Returns(c, "Shutdown") =>
                procs'[c].ret = IF hist.lastOK = "Start"
                                THEN NoError ELSE ErrMonitorShutdown]_vars

\* C7 witness: the Monitor has been started, shut down and started again.
C7_Witness ==
    /\ hist.lastOK = "Start"
    /\ nctx = 2
    /\ canceled = {1}
    /\ m.cancel = 2
    /\ \E c \in Callers :
          /\ procs[c].pc = "unlock" /\ procs[c].op = "Start"
          /\ procs[c].ret = NoError

Updated == {c \in Callers : procs[c].pc = "unlock" /\ procs[c].op = "Update"}

\* C9: whether the Monitor has never been started, is running or has been
\* shut down, when an Updater's Update(status, err) has run, the subsystem has
\* that status and that error and the overall status is the aggregation
\* formula over the subsystems.
C9_UpdateInEveryLifecycleState ==
    \A c \in Updated :
        /\ CurrentOf(m, procs[c].i).Status = procs[c].s
        /\ CurrentOf(m, procs[c].i).LastError = procs[c].err
        /\ m.status = Aggregate(m)

\* C9 witness: after a Start and a Shutdown, an Update has made a critical
\* subsystem Bad and with it the overall status.
C9_Witness ==
    /\ hist.lastOK = "Shutdown"
    /\ m.cancel = NoCancel
    /\ \E c \in Updated :
          /\ procs[c].s = StatusBad
          /\ procs[c].i \in Critical(m)
          /\ m.status = StatusBad

\* a successful Shutdown has returned and no Start has succeeded since
ShutdownReturned ==
    /\ hist.lastOK = "Shutdown"
    /\ \A c \in Callers : ~(procs[c].pc = "unlock" /\ procs[c].op = "Shutdown")

\* C10: once a successful Shutdown has returned, whatever the clock does, no
\* Probe is invoked and no probe goroutine changes a subsystem or the overall
\* status.
C10_NoProbeAfterShutdown ==
    [][ShutdownReturned =>
          \A t \in Tasks :
              /\ ~(procs[t].pc = "select" /\ procs'[t].pc = "probe")
              /\ ~(procs[t].pc = "update" /\ procs'[t].pc = "unlock")]_vars

\* the probe goroutines of every canceled context have returned
CanceledTasksExited ==
    \A t \in Tasks : t[1] \in canceled => procs[t].pc = "done"

StatusGoodUnlessRunning(mon) ==
    IF mon.cancel = NoCancel THEN StatusGood ELSE mon.status

\* Monitor.Status(), with the read lock free to take
Status(mon) == mon.status

\* the processes, callers and probe goroutines, whose Update has run and is
\* about to release the lock and return
Returning ==
    {p \in DOMAIN procs :
        procs[p].pc = "unlock" /\ procs[p].op \in {"Update", "Probe"}}

\* the listeners registered at construction
Registered == {m.listeners[j] : j \in 1..Len(m.listeners)}

\* C12: when Update(s, err) on a subsystem is about to return, the overall
\* status has been recomputed and every registered listener's latest event
\* shows that subsystem with status s and error err and carries the overall
\* status that Status() returns, which is the aggregation formula with that
\* subsystem at s.
C12_UpdatePublishedBeforeReturn ==
    \A p \in Returning :
        LET x == m.trackers[procs[p].i].current
        IN /\ CurrentOf(m, procs[p].i).Status = procs[p].s
           /\ Status(m) = Aggregate(m)
           /\ \A l \in Registered :
                 /\ received.by[l].n > 0
                 /\ received.by[l].last.Subsystems[x].Status = procs[p].s
                 /\ received.by[l].last.Subsystems[x].LastError = procs[p].err
                 /\ received.by[l].last.Status = Status(m)

\* C12 witness: an Update(Warn, nil) is about to return, the overall status
\* is Warn, and both listeners have got, as their second event or a later
\* one, the event that shows the subsystem at Warn.
C12_Witness ==
    /\ Registered = {"L1", "L2"}
    /\ \E c \in Callers :
          /\ c \in Returning
          /\ procs[c].s = StatusWarn /\ procs[c].err = NoError
          /\ \A l \in Registered :
                /\ received.by[l].n >= 2
                /\ received.by[l].last.Subsystems[procs[c].i].Status = StatusWarn
    /\ hist.recomputes >= 2
    /\ m.status = StatusWarn

\* the aggregation formula over the subsystems an event yields
EventAggregate(e) == Aggregate([m EXCEPT !.subsystems = e.Subsystems])

\* C13: whatever the interleaving of Updates, Start and Shutdown, the latest
\* event of every listener is consistent, its Status being the aggregation
\* formula over the subsystems it yields; and the subsystems, the overall
\* status and what the listeners received change only in a step of the one
\* process that holds the write lock, in which no other process moves.
C13_EventsConsistentUnderLock ==
    [][/\ \A l \in ListenerIds :
             received'.by[l].n > 0 =>
                 /\ received'.by[l].last.Status
                        = EventAggregate(received'.by[l].last)
                 /\ received'.by[l].last.SubsystemCount
                        = Len(received'.by[l].last.Subsystems)
       /\ (m'.subsystems # m.subsystems \/ m'.status # m.status
             \/ received' # received) =>
             /\ m.lock.w \in DOMAIN procs
             /\ m'.lock.w = m.lock.w
             /\ procs[m.lock.w].pc \in {"update", "body"}
             /\ procs'[m.lock.w].pc = "unlock"
             /\ \A q \in DOMAIN procs \ {m.lock.w} : procs'[q] = procs[q]
             /\ m'.trackers = m.trackers
             /\ \A l \in ListenerIds \ Registered :
                    received'.by[l] = received.by[l]
             /\ \A l \in Registered :
                    /\ received'.by[l].n = received.by[l].n + 1
                    /\ received'.by[l].last.Subsystems = m'.subsystems
                    /\ received'.by[l].last.Status = m'.status]_vars

\* C13 witness: a probe goroutine's Update has run while a caller waits for
\* the lock with an Update of its own, and the listeners hold the event of
\* the goroutine's Update with an overall status of Bad.
C13_Witness ==
    \E t \in Tasks, c \in Callers :
        /\ procs[t].pc = "unlock" /\ m.lock.w = t
        /\ procs[c].pc = "lock" /\ procs[c].op = "Update"
        /\ m.status = StatusBad
        /\ \A l \in Registered :
              /\ received.by[l].last.Status = StatusBad
              /\ received.by[l].last.Subsystems = m.subsystems
        /\ Registered # {}

\* process p makes its Update in this step
Updates(p) == procs[p].pc = "update" /\ procs'[p].pc = "unlock"

\* C14: with writers updating distinct subsystems concurrently, no update
\* is lost: the Update of a writer sets its own subsystem to the status and
\* error it was called with and leaves every other subsystem as the last
\* Update to it left it, the overall status is then the aggregation formula
\* over these, and no step other than an Update changes a subsystem; so each
\* subsystem holds at any time what the last Update applied to it.
C14_NoLostUpdate ==
    [][/\ \A p \in DOMAIN procs :
             Updates(p) =>
                 /\ CurrentOf(m', procs[p].i).Status = procs[p].s
                 /\ CurrentOf(m', procs[p].i).LastError = procs[p].err
                 /\ \A k \in 1..Len(m.trackers) :
                       k # procs[p].i => CurrentOf(m', k) = CurrentOf(m, k)
                 /\ m'.status = Aggregate(m')
       /\ (\A p \in DOMAIN procs : ~Updates(p)) =>
             m'.subsystems = m.subsystems]_vars

\* C14 witness: two writers update the two subsystems concurrently; the
\* Update of one has run while the other waits for the lock, and the
\* subsystem of the waiting writer still holds the Bad status and error an
\* earlier Update gave it.
C14_Witness ==
    /\ Len(m.trackers) = 2
    /\ \E c, d \in Callers :
          /\ c # d
          /\ procs[c].pc = "unlock" /\ procs[c].op = "Update"
          /\ procs[d].pc = "lock" /\ procs[d].op = "Update"
          /\ procs[c].i # procs[d].i
          /\ CurrentOf(m, procs[c].i).Status = StatusWarn
          /\ CurrentOf(m, procs[d].i).Status = StatusBad
          /\ CurrentOf(m, procs[d].i).LastError = ErrProbe
          /\ m.status = Aggregate(m)

\* the listeners the options register, in order
RECURSIVE ListenersOf(_)
ListenersOf(os) ==
    IF os = << >> THEN << >>
    ELSE (IF Head(os).kind = "WithListeners" THEN Head(os).ls ELSE << >>)
         \o ListenersOf(Tail(os))

\* C15: at every recomputation of the overall status each registered
\* listener is called exactly once, in the order of registration over all
\* WithListeners options, all with the same event, whose SubsystemCount is the
\* number of subsystems defined at construction.
C15_EveryListenerOnceInOrder ==
    [][hist'.recomputes # hist.recomputes =>
          LET ls == ListenersOf(opts)
          IN /\ hist'.recomputes = hist.recomputes + 1
             /\ received'.calls = received.calls + Len(ls)
             /\ \A j \in 1..Len(ls) :
                   /\ received'.by[ls[j]].n = received.by[ls[j]].n + 1
                   /\ received'.by[ls[j]].at = received.calls + j
                   /\ received'.by[ls[j]].last = MonitorEvent(m')
                   /\ received'.by[ls[j]].last.SubsystemCount
                          = Len(DefinitionsOf(opts))
             /\ \A l \in ListenerIds :
                   (\A j \in 1..Len(ls) : ls[j] # l) =>
                       received'.by[l] = received.by[l]]_vars

\* C15 witness: of two listeners registered by two WithListeners options,
\* with subsystems defined in between, each has been called twice, the one
\* registered first before the other, with the same event of two subsystems.
C15_Witness ==
    /\ ListenersOf(opts) = <<"L1", "L2">>
    /\ \E i, j \in 1..Len(opts) :
          i < j /\ opts[i].kind = "WithListeners" /\ opts[j].kind = "WithListeners"
    /\ received.by["L1"].n = 2 /\ received.by["L2"].n = 2
    /\ received.calls = 4
    /\ received.by["L1"].at = 3 /\ received.by["L2"].at = 4
    /\ received.by["L1"].last = received.by["L2"].last
    /\ received.by["L1"].last.SubsystemCount = 2

\* every registered listener is handed one more event in this step
OneEvent ==
    /\ received'.calls = received.calls + Len(m.listeners)
    /\ \A l \in Registered : received'.by[l].n = received.by[l].n + 1

\* C16: one event is dispatched for each successful Start and for each
\* Update, also for an Update that changes neither the subsystem's status nor
\* the overall one; a refused Start, a Shutdown, successful or refused, and
\* every other step dispatch none.
C16_EventPerStartAndUpdate ==
    [][IF \E p \in DOMAIN procs : Updates(p) THEN OneEvent
       ELSE IF \E c \in Callers : Returns(c, "Start") /\ procs'[c].ret = NoError
       THEN OneEvent
       ELSE received' = received]_vars

\* C16 witness: the first operation on a Monitor whose subsystems are Good
\* is an Update(Good, nil): statuses are as they were and each of the two
\* listeners has its first event.
C16_Witness ==
    /\ hist.recomputes = 1
    /\ hist.lastOK = "none"
    /\ \A k \in 1..Len(m.trackers) : m.trackers[k].definition.Status = StatusGood
    /\ \E c \in Callers :
          /\ procs[c].pc = "unlock" /\ procs[c].op = "Update"
          /\ procs[c].s = StatusGood /\ procs[c].err = NoError
    /\ m.status = StatusGood
    /\ Registered = {"L1", "L2"}
    /\ \A l \in Registered : received.by[l].n = 1

\* the position of the definition of name n among the definitions, 0 if none
DefinedAt(defs, n) ==
    IF \E k \in 1..Len(defs) : defs[k].Name = n
    THEN CHOOSE k \in 1..Len(defs) : defs[k].Name = n
    ELSE 0

C18_LastUpdateMonotonic ==
    [][/\ now' >= now
       /\ \A k \in 1..Len(m.trackers) :
             CurrentOf(m', k).LastUpdate >= CurrentOf(m, k).LastUpdate
       /\ \A p \in DOMAIN procs :
             Updates(p) => CurrentOf(m', procs[p].i).LastUpdate = now]_vars

\* C18 witness: a probe goroutine has updated a subsystem after the clock
\* moved on, while a caller that called Update on the same subsystem waits for
\* the lock.
C18_Witness ==
    \E t \in Tasks, c \in Callers :
        /\ procs[t].pc = "unlock" /\ m.lock.w = t
        /\ procs[c].pc = "lock" /\ procs[c].op = "Update"
        /\ procs[c].i = procs[t].i
        /\ CurrentOf(m, procs[t].i).LastUpdate = 2
        /\ CurrentOf(ret.m[1], procs[t].i).LastUpdate = 1

\* the probe goroutines whose Update has run and is about to return
Probing == {t \in Tasks : procs[t].pc = "unlock"}

Carries(sub, d) ==
    /\ sub.Name = d.Name
    /\ sub.NonCritical = d.NonCritical
    /\ sub.Attributes = d.Attributes

\* C20: in every state from construction on, the Subsystems of the Monitor
\* and of every event a listener received are one per definition, in the
\* order of the definitions, each with the Name, the NonCritical flag and the
\* Attributes of its definition; right after construction each has the Status
\* of its definition and no LastError, and all have the same LastUpdate.
C20_SnapshotsCarryDefinition ==
    LET defs == DefinitionsOf(opts)
    IN /\ Len(m.subsystems) = Len(defs)
       /\ \A k \in 1..Len(defs) : Carries(m.subsystems[k], defs[k])
       /\ \A l \in ListenerIds :
             received.by[l].n > 0 =>
                 /\ Len(received.by[l].last.Subsystems) = Len(defs)
                 /\ \A k \in 1..Len(defs) :
                       Carries(received.by[l].last.Subsystems[k], defs[k])
       /\ (hist.nops = 0 /\ hist.recomputes = 0) =>
             \A k \in 1..Len(defs) :
                 /\ m.subsystems[k].Status = defs[k].Status
                 /\ m.subsystems[k].LastError = NoError
                 /\ m.subsystems[k].LastUpdate = m.subsystems[1].LastUpdate

\* C21: a successful Start sets the overall timestamp to the current time
\* and the overall status to the aggregation formula over the subsystems, and
\* leaves the Status, LastError and LastUpdate of every subsystem as they were.
C21_StartRecomputesOnly ==
    [][\A c \in Callers :
          (Returns(c, "Start") /\ procs'[c].ret = NoError) =>
              /\ m'.lastUpdate = now
              /\ m'.status = Aggregate(m)
              /\ m'.subsystems = m.subsystems
              /\ m'.trackers = m.trackers]_vars

\* C21 witness: a Start at time 2 has succeeded on a Monitor constructed at
\* time 1 with a critical subsystem defined as Bad: the overall status is now
\* Bad, the overall timestamp is 2, and the subsystem still has its
\* LastUpdate of 1.
C21_Witness ==
    /\ hist.recomputes = 1
    /\ m.lastUpdate = 2
    /\ m.status = StatusBad
    /\ m.subsystems = ret.m[1].subsystems
    /\ \A k \in 1..Len(m.subsystems) : m.subsystems[k].LastUpdate = 1
    /\ \E c \in Callers :
          /\ procs[c].pc = "unlock" /\ procs[c].op = "Start"
          /\ procs[c].ret = NoError

\* no Start has succeeded yet
NeverStarted == hist.lastOK = "none"

Holding == {c \in Callers : procs[c].op = "State"}

\* the aggregation formula over the Subsystems of a MonitorState
StateAggregate(ms) == Aggregate([m EXCEPT !.subsystems = All(ms.Subsystems, m)])

C25_ProbesOnlyForProbedAfterStart ==
    [][/\ NeverStarted' => Tasks' = {}
       /\ \A t \in Tasks' : m'.trackers[t[2]].definition.Probe
       /\ \A t \in Tasks :
             (procs[t].pc = "select" /\ procs'[t].pc = "probe") =>
                 /\ ~NeverStarted
                 /\ m.trackers[t[2]].definition.Probe
       /\ \A k \in 1..Len(m.trackers) :
             (~m.trackers[k].definition.Probe
                /\ CurrentOf(m', k) # CurrentOf(m, k)) =>
                 \E c \in Callers : Updates(c) /\ procs[c].i = k]_vars

\* C25 witness: of two subsystems the one with a Probe has a goroutine,
\* which is calling the Probe, and the other has none; the other was changed
\* by a caller's Update.
C25_Witness ==
    /\ Len(m.trackers) = 2
    /\ m.trackers[1].definition.Probe /\ ~m.trackers[2].definition.Probe
    /\ Tasks = {<<1, 1>>}
    /\ procs[<<1, 1>>].pc = "probe"
    /\ CurrentOf(m, 2) # CurrentOf(ret.m[1], 2)

\* the errors of a chain that are of a kind, by their place in it
Wrapped(err, kind) == {i \in 1..Len(err) : err[i].kind = kind}

\* the outermost error of a kind in a chain that has one
Outermost(err, kind) ==
    err[CHOOSE i \in Wrapped(err, kind) : \A j \in Wrapped(err, kind) : i <= j]

\* the status the convention gives an error
Convention(err) ==
    IF err = << >> THEN StatusGood
    ELSE IF Wrapped(err, "SelfStatuser") # {} THEN Outermost(err, "SelfStatuser").status
    ELSE IF Wrapped(err, "SelfBooler") # {}
    THEN (IF Outermost(err, "SelfBooler").ok THEN StatusGood ELSE StatusBad)
    ELSE StatusBad

\* C26: ErrorStatus gives nil StatusGood, an error that is or wraps a
\* SelfStatuser the status that one reports, otherwise an error that is or
\* wraps a SelfBooler StatusGood when it reports true and StatusBad when
\* false, and every other error StatusBad; AddStatus(err, s) is an error
\* whose Unwrap is err and whose ErrorStatus is s.
C26_ErrorStatusConvention ==
    /\ ret.called => ret.status = Convention(opts)
    /\ ret.added =>
           /\ ret.err # << >>
           /\ Tail(ret.err) = opts
           /\ ret.addedStatus = ret.arg

\* ErrorStatus was given a SelfBooler reporting true that wraps a
\* SelfStatuser reporting StatusBad, and AddStatus gave that error StatusWarn
C26_Witness ==
    /\ Len(opts) >= 2
    /\ opts[1] = SelfBooler(TRUE)
    /\ opts[2] = SelfStatuser(StatusBad)
    /\ ret.called
    /\ ret.status = StatusBad
    /\ ret.added
    /\ ret.arg = StatusWarn
    /\ ret.addedStatus = StatusWarn

\* the closures that take a context
TakesContext ==
    {probeContextReturnBool, probeContextReturnError, probeContextReturnStatus,
     probeContextReturnStatusError}

\* what the Probe of a closure is to return
Expected(f) ==
    IF f.type \in {probeReturnBool, probeContextReturnBool}
    THEN <<IF f.b THEN StatusGood ELSE StatusBad, NoError>>
    ELSE IF f.type \in {probeReturnError, probeContextReturnError}
    THEN <<ErrorStatus(f.err), f.err>>
    ELSE IF f.type \in {probeReturnStatus, probeContextReturnStatus}
    THEN <<f.status, NoError>>
    ELSE <<f.status, f.err>>

\* C27: for each of the eight closure types AsProbe returns a Probe, and
\* every call of that Probe calls the closure once, with the Probe's context
\* when the closure takes one, and returns (StatusGood, nil) or
\* (StatusBad, nil) for a bool, (ErrorStatus(err), err) for an error,
\* (s, nil) for a Status and the closure's own pair for a (Status, error).
C27_AsProbeAdaptsEveryClosure ==
    /\ ret.converted => ~ret.panic
    /\ (ret.converted /\ ret.invoked > 0) =>
           /\ ret.calls = ret.invoked
           /\ ret.seen = (IF opts.type \in TakesContext THEN ret.ctx ELSE NoContext)
           /\ ret.result = Expected(opts)

\* C28: after a Shutdown that returned nil, every probe goroutine of the
\* Start before it applies at most one more Update before it exits, however
\* far the clock is advanced.
C28_AtMostOneUpdateAfterShutdown ==
    \A t \in DOMAIN hist.late : hist.late[t] <= 1

\* the contexts created and not yet canceled
LiveContexts == (1..nctx) \ canceled

\* a caller's Start or Shutdown returns nil in this step
ReturnsNil(c, op) ==
    /\ procs[c].pc = "body"
    /\ procs[c].op = op
    /\ procs'[c].pc = "unlock"
    /\ procs'[c].ret = NoError

\* at most one context is live, and it is the one m.cancel cancels
OneLiveContext ==
    /\ Cardinality(LiveContexts) <= 1
    /\ (m.cancel # NoCancel) <=> (hist.lastOK = "Start")
    /\ LiveContexts = IF m.cancel = NoCancel THEN {} ELSE {m.cancel}
    /\ \A t \in Tasks : t[1] \in 1..nctx

\* C29: at most one lifetime context is live at any time: the Monitor holds a
\* cancel function exactly while it is running, a Start that returns nil
\* creates exactly one context, which every probe goroutine it launches runs
\* and calls its Probe with, and a Shutdown that returns nil cancels exactly
\* that context, once.
C29_OneLifetimeContext ==
    /\ []OneLiveContext
    /\ [][/\ \A c \in Callers :
                ReturnsNil(c, "Start") =>
                    /\ nctx' = nctx + 1
                    /\ m'.cancel = nctx'
                    /\ canceled' = canceled
                    /\ \A t \in Tasks' \ Tasks : t[1] = nctx'
          /\ \A c \in Callers :
                ReturnsNil(c, "Shutdown") =>
                    /\ m.cancel \in LiveContexts
                    /\ canceled' = canceled \cup {m.cancel}
                    /\ nctx' = nctx
                    /\ m'.cancel = NoCancel
          /\ (\A c \in Callers : ~ReturnsNil(c, "Start")) =>
                    /\ nctx' = nctx
                    /\ Tasks' = Tasks
          /\ (\A c \in Callers : ~ReturnsNil(c, "Shutdown")) => canceled' = canceled
         ]_vars

\* a second Start has made a second context after the first was canceled,
\* and a goroutine of the second run is calling its Probe with it
C29_Witness ==
    /\ nctx = 2
    /\ canceled = {1}
    /\ m.cancel = 2
    /\ \E t \in Tasks : t[1] = 2 /\ procs[t].pc = "probe"

\* the probe goroutines that have not returned
LiveTasks == {t \in Tasks : procs[t].pc # "done"}

\* C30: a subsystem with a Probe has at most one probe goroutine at any
\* time, and no two goroutines are in its Probe at once, also when Start is
\* called again right after Shutdown, before the goroutine of the run before
\* has taken <-ctx.Done().
C30_OneProbeTaskPerSubsystem ==
    \A t1, t2 \in LiveTasks :
        procs[t1].i = procs[t2].i => t1 = t2

\* the processes between lock.Lock() and the deferred lock.Unlock() of
\* Update, Start and Shutdown
InCriticalSection == {p \in DOMAIN procs : procs[p].pc \in {"update", "body", "unlock"}}

\* C31: the critical sections of Update, Start and Shutdown exclude each
\* other: at most one process is in one at any time and it holds the lock, so
\* the listeners are called, and a Subsystem is written, by that process
\* alone; and only Update ever changes a Subsystem after construction.
C31_CriticalSectionsExclusive ==
    /\ [](/\ Cardinality(InCriticalSection) <= 1
          /\ InCriticalSection = {p \in DOMAIN procs : m.lock.w = p})
    /\ [][/\ received' # received =>
                \E p \in InCriticalSection :
                    /\ procs[p].pc \in {"update", "body"}
                    /\ procs'[p].pc = "unlock"
                    /\ \A q \in DOMAIN procs \ {p} : procs'[q] = procs[q]
          /\ m'.subsystems # m.subsystems =>
                \E p \in InCriticalSection :
                    /\ Updates(p)
                    /\ procs[p].op \in {"Update", "Probe"}
                    /\ \A k \in 1..Len(m.subsystems) :
                          k # m.trackers[procs[p].i].current =>
                              m'.subsystems[k] = m.subsystems[k]
         ]_vars

\* a caller is in Update under the lock while another caller and a probe
\* goroutine wait for the lock
C31_Witness ==
    /\ \E c \in Callers : procs[c].pc = "update"
    /\ \E c \in Callers : procs[c].pc = "lock"
    /\ \E t \in Tasks : procs[t].pc = "lock"

\* the processes whose listener has called back into the Monitor
Reentered == {p \in DOMAIN procs : procs[p].pc = "listener"}

\* the processes waiting in lock.Lock() or lock.RLock()
Waiting == {p \in DOMAIN procs : procs[p].pc \in {"lock", "rlock"}}

\* C32: a call of Update, Start, Shutdown or Status that a listener makes
\* while it handles an event never returns: the process that dispatches
\* holds the write lock and stays in the listener for ever, and every call of
\* Update, Start, Shutdown and Status made afterwards waits for the lock for
\* ever.
C32_ReentrantListenerDeadlocks ==
    /\ [](Reentered # {} => \A p \in Reentered : m.lock.w = p /\ m.lock.r = {})
    /\ [][Reentered # {} =>
             /\ \A p \in Reentered \cup Waiting : procs'[p] = procs[p]
             /\ \A c \in Callers \ Reentered : procs'[c].pc \in {"idle", "lock", "rlock"}
             /\ m' = m
             /\ received' = received
         ]_vars

\* a listener called Status from the event of an Update, and the other
\* caller waits in its own call of Status
C32_Witness ==
    /\ \E p \in Reentered : procs[p].op = "Update" /\ procs[p].ret = "Status"
    /\ \E c \in Callers : procs[c].pc = "rlock"

\* the processes that hold the lock, for writing or for reading
LockHolders == {p \in DOMAIN procs : m.lock.w = p} \cup m.lock.r

\* C33: the lock is never held while a Probe runs: a goroutine that is in its
\* Probe, for however long, holds no lock, and whoever holds the lock is in
\* the few steps of Update, Start, Shutdown or Status that end with its
\* release, so the other goroutines, Update, Status, Start and Shutdown go on:
\* a call that has to wait waits for such a holder, or for a call of Lock that
\* can go ahead.
C33_NoLockDuringProbe ==
    /\ \A t \in Tasks :
          procs[t].pc \in {"select", "probe", "lock", "done"} => t \notin LockHolders
    /\ \A p \in LockHolders : procs[p].pc \in {"update", "body", "unlock", "runlock"}
    /\ \A p \in DOMAIN procs :
          (procs[p].pc \in {"lock", "rlock"} /\ ~Acquirable(m, p, procs[p].op)) =>
              \/ \E q \in LockHolders : procs[q].pc # "probe"
              \/ \E q \in DOMAIN procs :
                    procs[q].pc = "lock" /\ Acquirable(m, q, procs[q].op)

\* one goroutine is in its Probe while the goroutine of the other subsystem
\* has applied its Update under the lock and a caller of Status waits for it
C33_Witness ==
    /\ \E t1, t2 \in Tasks :
          /\ procs[t1].pc = "probe"
          /\ procs[t2].pc = "unlock"
          /\ procs[t1].i # procs[t2].i
    /\ \E c \in Callers : procs[c].op = "Status" /\ procs[c].pc = "rlock"

\* the process is in a call of Update, Status, Start or Shutdown, or in the
\* Update of a probe goroutine, and has not returned from it
InCall(p) ==
    /\ p \in DOMAIN procs
    /\ procs[p].pc \in {"lock", "rlock", "update", "body", "unlock", "runlock"}

\* C40: with listeners and Probes that return and do not call the Monitor,
\* nothing deadlocks: whatever the interleaving of Update by callers and by
\* probe goroutines, Status, Start and Shutdown, every call gets the lock and
\* returns.
C40_EveryCallReturns ==
    \A p \in Callers \cup TaskIds : []<>~InCall(p)

\* Shutdown holds the lock while a probe goroutine and the other caller wait
\* for it
C40_Witness ==
    /\ \E c \in Callers : procs[c].op = "Shutdown" /\ procs[c].pc = "body"
    /\ \E c \in Callers : procs[c].pc \in {"lock", "rlock"}
    /\ \E t \in Tasks : procs[t].pc = "lock"

\* the probe goroutine ends in its Probe in this step
Faults(t) == procs[t].pc = "probe" /\ procs'[t].pc = "exit"

\* C34: a panic in a Probe ends the probe goroutine of that subsystem and
\* nothing else: the lock is not left held, the other goroutines and the
\* callers of Update, Start and Shutdown are where they were and go on.
C34_ProbePanicEndsOnlyItsTask ==
    [][\A t \in Tasks :
          Faults(t) =>
              /\ m' = m
              /\ m.lock.w # t
              /\ \A p \in DOMAIN procs \ {t} : procs'[p] = procs[p]
      ]_vars

\* C35: an error that a Probe returns is data and nothing more: Update
\* stores it as the LastError of the subsystem, no call of Start, Shutdown or
\* Update returns it, and the goroutine does not stop: after the Update it arms
\* a new timer of its interval and waits for it as before.
C35_ProbeErrorIsData ==
    /\ [](\A c \in Callers :
             procs[c].ret \in {"none", NoError, ErrMonitorStarted, ErrMonitorShutdown})
    /\ [][\A t \in Tasks :
             /\ (Updates(t) /\ procs[t].err # NoError) =>
                   /\ CurrentOf(m', procs[t].i).LastError = procs[t].err
                   /\ procs'[t].err = procs[t].err
                   /\ \A c \in Callers : procs'[c] = procs[c]
             /\ (procs[t].pc = "unlock" /\ procs[t].err # NoError
                 /\ procs'[t] # procs[t]) =>
                   /\ procs'[t].pc = "select"
                   /\ procs'[t].deadline =
                          now + m.trackers[procs[t].i].definition.ProbeInterval
                   /\ procs'[t].deadline > now
         ]_vars

\* the error of a Probe is the LastError of its subsystem, and the goroutine
\* is in its Probe again
C35_Witness ==
    \E t \in Tasks :
        /\ procs[t].pc = "probe"
        /\ t[1] \notin canceled
        /\ CurrentOf(m, procs[t].i).LastError = ErrProbe

\* the intervals given to WithDefaultProbeInterval in a list of options
RECURSIVE DefaultsOf(_)
DefaultsOf(os) ==
    IF os = << >> THEN << >>
    ELSE (IF Head(os).kind = "WithDefaultProbeInterval"
          THEN <<Head(os).i>> ELSE << >>) \o DefaultsOf(Tail(os))

\* the default interval a list of options asks for: the last one given to
\* WithDefaultProbeInterval when it is positive
DefaultAskedFor(os) ==
    LET given == DefaultsOf(os)
    IN IF given # << >> /\ given[Len(given)] > 0
       THEN given[Len(given)]
       ELSE DefaultProbeInterval

\* C36: in a constructed Monitor the probe interval of every subsystem is
\* normalized: 0 without a Probe, its own interval with a Probe when that is
\* positive, and otherwise the Monitor's default, which is what
\* WithDefaultProbeInterval was given when that is positive, wherever that
\* option stands among the others, and DefaultProbeInterval if not; so a
\* timer of a probe goroutine always has a positive duration.
C36_ProbeIntervalsNormalized ==
    (ret.done /\ ret.err = NoError) =>
        LET defs == DefinitionsOf(opts)
        IN /\ Len(m.trackers) = Len(defs)
           /\ m.defaultProbeInterval = DefaultAskedFor(opts)
           /\ m.defaultProbeInterval > 0
           /\ \A k \in 1..Len(defs) :
                 LET interval == m.trackers[k].definition.ProbeInterval
                 IN /\ ~defs[k].Probe => interval = 0
                    /\ (defs[k].Probe /\ defs[k].ProbeInterval > 0) =>
                          interval = defs[k].ProbeInterval
                    /\ (defs[k].Probe /\ defs[k].ProbeInterval <= 0) =>
                          interval = DefaultAskedFor(opts)
                    /\ defs[k].Probe => interval > 0

\* a Probe with a negative interval, a subsystem without a Probe that asks
\* for an interval, and WithDefaultProbeInterval(3) after them
C36_Witness ==
    /\ ret.done /\ ret.err = NoError
    /\ Len(opts) = 3
    /\ opts[3] = OptDefaultProbeInterval(3)
    /\ Len(m.trackers) = 2
    /\ \E k \in 1..2 :
          /\ m.trackers[k].definition.Probe
          /\ DefinitionsOf(opts)[k].ProbeInterval < 0
          /\ m.trackers[k].definition.ProbeInterval = 3
    /\ \E k \in 1..2 :
          /\ ~m.trackers[k].definition.Probe
          /\ DefinitionsOf(opts)[k].ProbeInterval = 1
          /\ m.trackers[k].definition.ProbeInterval = 0

\* the steps of a probe goroutine, by where it stands before and after
TaskSteps ==
    {<<"select", "probe">>, <<"select", "done">>, <<"probe", "lock">>,
     <<"lock", "update">>, <<"update", "unlock">>, <<"unlock", "select">>}

\* C37: a probe goroutine calls its Probe once for each firing of its timer
\* and arms the next timer only when that call and the Update of its result
\* are over: its calls of the Probe do not overlap, each result is applied by
\* exactly one Update, and the results are applied in the order the Probe
\* gave them.
C37_OneProbeOneUpdatePerTimer ==
    [][\A t \in Tasks :
          procs'[t] # procs[t] =>
             /\ <<procs[t].pc, procs'[t].pc>> \in TaskSteps
             /\ procs'[t].i = procs[t].i
             /\ procs[t].pc = "select" =>
                   /\ m' = m
                   /\ procs'[t].pc = "probe" => now >= procs[t].deadline
             /\ procs[t].pc = "probe" => m' = m
             /\ procs[t].pc \in {"lock", "update"} =>
                   /\ procs'[t].s = procs[t].s
                   /\ procs'[t].err = procs[t].err
             /\ procs[t].pc = "lock" => m'.subsystems = m.subsystems
             /\ procs[t].pc = "update" =>
                   /\ CurrentOf(m', procs[t].i).Status = procs[t].s
                   /\ CurrentOf(m', procs[t].i).LastError = procs[t].err
                   /\ hist'.recomputes = hist.recomputes + 1
             /\ procs[t].pc = "unlock" =>
                   /\ m'.subsystems = m.subsystems
                   /\ procs'[t].deadline =
                          now + m.trackers[procs[t].i].definition.ProbeInterval
      ]_vars

\* a goroutine of the first run has applied the result of its second call of
\* the Probe
C37_Witness ==
    /\ nctx = 1
    /\ canceled = {}
    /\ hist.recomputes = 3
    /\ \E t \in Tasks : procs[t].pc = "unlock"

\* C38: with a clock that never goes back, an Update of a subsystem leaves the
\* Monitor's lastUpdate equal to the LastUpdate it has just given that
\* subsystem, and once the overall status has been recomputed, by Start or by
\* an Update, the Monitor's lastUpdate is at least the LastUpdate of every
\* subsystem.
C38_OverallTimestampCoversSubsystems ==
    /\ [](hist.recomputes > 0 =>
             \A k \in 1..Len(m.trackers) :
                 m.lastUpdate >= CurrentOf(m, k).LastUpdate)
    /\ [][\A p \in DOMAIN procs :
             Updates(p) =>
                 /\ m'.lastUpdate = CurrentOf(m', procs[p].i).LastUpdate
                 /\ m'.lastUpdate = now]_vars

\* an Update has run after the clock moved on: the Monitor's lastUpdate is
\* the new LastUpdate of the updated subsystem and is later than the
\* LastUpdate of the other subsystem
C38_Witness ==
    \E p \in DOMAIN procs :
        /\ procs[p].pc = "unlock" /\ procs[p].op \in {"Update", "Probe"}
        /\ m.lock.w = p
        /\ m.lastUpdate = CurrentOf(m, procs[p].i).LastUpdate
        /\ \E k \in 1..Len(m.trackers) :
              /\ k # procs[p].i
              /\ CurrentOf(m, k).LastUpdate < m.lastUpdate

\* the fields of a Subsystem that Update assigns
Assigned == {"Status", "LastError", "LastUpdate"}

\* C39: an Update of a subsystem changes of the Monitor only the Status, the
\* LastError and the LastUpdate of that subsystem and the Monitor's status and
\* lastUpdate: every other Subsystem, the other fields of the updated one,
\* the trackers with their definitions, the listeners, m.cancel, the contexts
\* and the probe goroutines, other than the position of the one that makes
\* the Update, are as they were.
C39_UpdateFrame ==
    [][\A p \in DOMAIN procs :
          Updates(p) =>
             LET x == procs[p].i
             IN /\ \A k \in 1..Len(m.trackers) :
                      k # x => CurrentOf(m', k) = CurrentOf(m, k)
                /\ DOMAIN CurrentOf(m', x) = DOMAIN CurrentOf(m, x)
                /\ \A f \in DOMAIN CurrentOf(m, x) \ Assigned :
                      CurrentOf(m', x)[f] = CurrentOf(m, x)[f]
                /\ Len(m'.subsystems) = Len(m.subsystems)
                /\ \A f \in DOMAIN m \ {"subsystems", "status", "lastUpdate"} :
                      m'[f] = m[f]
                /\ canceled' = canceled /\ nctx' = nctx
                /\ DOMAIN procs' = DOMAIN procs
                /\ \A q \in DOMAIN procs : q # p => procs'[q] = procs[q]
                /\ LiveTasks' = LiveTasks
      ]_vars

\* an Update of the subsystem that has Attributes has run while the Monitor
\* is started and a probe goroutine of the other subsystem is live, and has
\* changed the Status of its subsystem
C39_Witness ==
    \E p \in Callers :
        /\ procs[p].pc = "unlock" /\ procs[p].op = "Update"
        /\ CurrentOf(m, procs[p].i).Attributes # NoAttributes
        /\ CurrentOf(m, procs[p].i).Status
              # m.trackers[procs[p].i].definition.Status
        /\ m.cancel # NoCancel
        /\ \E t \in LiveTasks : procs[t].i # procs[p].i

====
